---- MODULE Spec2Model ----
(***************************************************************************)
(* Knowledge-graph builder: ingestion jobs, graph builds (merge by         *)
(* identity into the graph store), subgraph retrieval.                     *)
(*                                                                         *)
(* Strings are sequences of one-character strings, so that lower-casing,   *)
(* whitespace splitting, the canonicalisation regexes and substring tests  *)
(* are computed character by character as the Python code computes them.   *)
(***************************************************************************)
EXTENDS Integers, Sequences, FiniteSets, TLC

(***************************************************************************)
(* Bounds of the model.                                                    *)
(***************************************************************************)
MaxJobs == 2
MaxSyncs == 2
MaxInputs == 2

(***************************************************************************)
(* Python string primitives.                                               *)
(***************************************************************************)
UpperChars == <<"A","B","C","D","E","F","G","H","I","J","K","L","M",
                "N","O","P","Q","R","S","T","U","V","W","X","Y","Z">>
LowerChars == <<"a","b","c","d","e","f","g","h","i","j","k","l","m",
                "n","o","p","q","r","s","t","u","v","w","x","y","z">>
DigitChars == <<"0","1","2","3","4","5","6","7","8","9">>
OtherChars == <<" ", "\t", ".", "!", "_">>
Alphabet == UpperChars \o LowerChars \o DigitChars \o OtherChars

Range(s) == {s[i] : i \in 1..Len(s)}

IndexIn(c, s) == CHOOSE i \in 1..Len(s) : s[i] = c

\* str.lower() on one character
LowerChar(c) == IF c \in Range(UpperChars) THEN LowerChars[IndexIn(c, UpperChars)] ELSE c

\* str.lower()
Lower(s) == [i \in 1..Len(s) |-> LowerChar(s[i])]

\* \s of the re module / the whitespace of str.split() and str.strip()
IsSpace(c) == c \in {" ", "\t"}

\* \d
IsDigit(c) == c \in Range(DigitChars)

\* \w
IsWordChar(c) == c \in Range(UpperChars) \cup Range(LowerChars) \cup Range(DigitChars) \cup {"_"}

RECURSIVE LStrip(_)
LStrip(s) == IF s # <<>> /\ IsSpace(Head(s)) THEN LStrip(Tail(s)) ELSE s

RECURSIVE RStrip(_)
RStrip(s) == IF s # <<>> /\ IsSpace(s[Len(s)]) THEN RStrip(SubSeq(s, 1, Len(s) - 1)) ELSE s

\* str.strip()
Strip(s) == RStrip(LStrip(s))

\* the first whitespace-free run of s (s does not start with whitespace)
RECURSIVE FirstWord(_)
FirstWord(s) == IF s = <<>> \/ IsSpace(Head(s)) THEN <<>> ELSE <<Head(s)>> \o FirstWord(Tail(s))

\* str.split(): the maximal whitespace-free runs, in order
RECURSIVE Split(_)
Split(s) ==
  LET t == LStrip(s) IN
  IF t = <<>> THEN <<>>
  ELSE LET w == FirstWord(t) IN <<w>> \o Split(SubSeq(t, Len(w) + 1, Len(t)))

\* ' '.join(words)
RECURSIVE Join(_)
Join(words) ==
  IF words = <<>> THEN <<>>
  ELSE IF Len(words) = 1 THEN words[1]
  ELSE words[1] \o <<" ">> \o Join(Tail(words))

StartsWith(s, p) == Len(p) <= Len(s) /\ SubSeq(s, 1, Len(p)) = p

EndsWith(s, p) == Len(p) <= Len(s) /\ SubSeq(s, Len(s) - Len(p) + 1, Len(s)) = p

\* needle in haystack (Python's substring test, case-sensitive)
Contains(hay, needle) ==
  \E i \in 0..(Len(hay) - Len(needle)) : SubSeq(hay, i + 1, i + Len(needle)) = needle

(***************************************************************************)
(* Words used by the code and by the modelled documents.                   *)
(***************************************************************************)
W_the == <<"t","h","e">>
W_a == <<"a">>
W_an == <<"a","n">>
W_inc == <<"i","n","c">>
W_corp == <<"c","o","r","p">>
W_ltd == <<"l","t","d">>
W_llc == <<"l","l","c">>
W_this == <<"t","h","i","s">>
W_that == <<"t","h","a","t">>
W_these == <<"t","h","e","s","e">>
W_those == <<"t","h","o","s","e">>
W_here == <<"h","e","r","e">>
W_there == <<"t","h","e","r","e">>
W_where == <<"w","h","e","r","e">>
W_when == <<"w","h","e","n">>
W_what == <<"w","h","a","t">>
W_how == <<"h","o","w">>
W_acme == <<"a","c","m","e">>
W_data == <<"d","a","t","a">>
W_graph == <<"g","r","a","p","h">>
W_ant == <<"a","n","t">>
W_bee == <<"b","e","e">>
W_cat == <<"c","a","t">>
W_dog == <<"d","o","g">>
W_eel == <<"e","e","l">>
W_ee == <<"e","e">>

(***************************************************************************)
(* NLPService: canonicalisation, identity, validity filter.                *)
(***************************************************************************)
\* self.nlp.Defaults.stop_words, restricted to the words of the modelled texts
stop_words == {W_the, W_a, W_an, W_this, W_that, W_these, W_those, W_here,
               W_there, W_where, W_when, W_what, W_how}

min_concept_length == 3
max_concepts_per_doc == 200
MaxConceptTextLen == 100
MaxKeywords == 50
MinKeywordFreq == 2

\* re.sub(r'^(the|a|an)\s+', '', canonical)
StripLeadingDeterminer(s) ==
  LET alts == <<W_the, W_a, W_an>>
      Hit(k) == /\ StartsWith(s, alts[k])
                /\ Len(s) > Len(alts[k])
                /\ IsSpace(s[Len(alts[k]) + 1])
  IN IF \E k \in 1..Len(alts) : Hit(k)
     THEN LET k == CHOOSE j \in 1..Len(alts) : Hit(j) /\ \A i \in 1..(j - 1) : ~Hit(i)
          IN LStrip(SubSeq(s, Len(alts[k]) + 1, Len(s)))
     ELSE s

\* re.sub(r'\s+(inc|corp|ltd|llc)$', '', canonical)
StripTrailingSuffix(s) ==
  LET alts == <<W_inc, W_corp, W_ltd, W_llc>>
      Hit(k) == /\ EndsWith(s, alts[k])
                /\ Len(s) > Len(alts[k])
                /\ IsSpace(s[Len(s) - Len(alts[k])])
  IN IF \E k \in 1..Len(alts) : Hit(k)
     THEN LET k == CHOOSE j \in 1..Len(alts) : Hit(j)
          IN RStrip(SubSeq(s, 1, Len(s) - Len(alts[k])))
     ELSE s

\* NLPService._canonicalize_concept
_canonicalize_concept(text) ==
  StripTrailingSuffix(StripLeadingDeterminer(Join(Split(Lower(Strip(text))))))

\* hashlib.md5(...).hexdigest(): a deterministic digest of the characters,
\* here a 16-bit polynomial digest (no two strings of the model collide)
RECURSIVE DigestFrom(_, _)
DigestFrom(h, s) ==
  IF s = <<>> THEN h
  ELSE DigestFrom((h * 31 + IndexIn(Head(s), Alphabet)) % (2^16), Tail(s))

Md5Hex(s) == DigestFrom(7, s)

\* NLPService._generate_concept_id
_generate_concept_id(canonical_key) == Md5Hex(canonical_key)

\* NLPService._is_valid_concept
_is_valid_concept(raw) ==
  LET text == Strip(raw)
      tokens == Split(Lower(text))
      non_informative == {W_this, W_that, W_these, W_those, W_here, W_there,
                          W_where, W_when, W_what, W_how}
  IN /\ ~(Len(text) < min_concept_length \/ Len(text) > MaxConceptTextLen)
     /\ ~(\A i \in 1..Len(tokens) : tokens[i] \in stop_words)
     /\ ~(\A i \in 1..Len(text) : ~IsWordChar(text[i]) /\ ~IsSpace(text[i]))
     /\ ~(text # <<>> /\ \A i \in 1..Len(text) : IsDigit(text[i]))
     /\ Lower(text) \notin non_informative

(***************************************************************************)
(* Document contents.  spaCy is an external collaborator: a content is     *)
(* given with the analysis spaCy returns for it (entities, noun chunks,    *)
(* tokens with lemma / flags / dependency / head, sentences), or with      *)
(* raises = TRUE when the pipeline throws on it.                           *)
(***************************************************************************)
SP == <<" ">>

\* "The Acme Inc graph. That"
TextA == <<"T","h","e">> \o SP \o <<"A","c","m","e">> \o SP \o <<"I","n","c">>
         \o SP \o W_graph \o <<".">> \o SP \o <<"T","h","a","t">>

\* "acme  data data"
TextB == W_acme \o SP \o SP \o W_data \o SP \o W_data

\* "!!"
TextBad == <<"!", "!">>

Tok(idx, len, lemma, stop, punct, space, dep, head) ==
  [idx |-> idx, len |-> len, lemma |-> lemma, is_stop |-> stop, is_punct |-> punct,
   is_space |-> space, dep_ |-> dep, head |-> head]

Span(a, b) == [start_char |-> a, end_char |-> b]

ContentA ==
  [text |-> TextA, raises |-> FALSE,
   ents |-> <<Span(4, 12)>>,
   noun_chunks |-> <<Span(0, 18), Span(20, 24)>>,
   tokens |-> <<Tok(0, 3, W_the, TRUE, FALSE, FALSE, "det", 3),
                Tok(4, 4, W_acme, FALSE, FALSE, FALSE, "compound", 3),
                Tok(9, 3, W_inc, FALSE, FALSE, FALSE, "compound", 4),
                Tok(13, 5, W_graph, FALSE, FALSE, FALSE, "ROOT", 4),
                Tok(18, 1, <<".">>, FALSE, TRUE, FALSE, "punct", 4),
                Tok(20, 4, W_that, TRUE, FALSE, FALSE, "ROOT", 6)>>,
   sents |-> <<Span(0, 19), Span(20, 24)>>]

ContentB ==
  [text |-> TextB, raises |-> FALSE,
   ents |-> <<Span(0, 4)>>,
   noun_chunks |-> <<Span(0, 15)>>,
   tokens |-> <<Tok(0, 4, W_acme, FALSE, FALSE, FALSE, "compound", 3),
                Tok(5, 1, SP, FALSE, FALSE, TRUE, "dep", 1),
                Tok(6, 4, W_data, FALSE, FALSE, FALSE, "compound", 4),
                Tok(11, 4, W_data, FALSE, FALSE, FALSE, "ROOT", 4)>>,
   sents |-> <<Span(0, 15)>>]

ContentBad ==
  [text |-> TextBad, raises |-> TRUE,
   ents |-> <<>>, noun_chunks |-> <<>>, tokens |-> <<>>, sents |-> <<>>]

\* "x y": two entities of one sentence, no dependency of the four kinds
PairContent(x, y) ==
  [text |-> x \o SP \o y, raises |-> FALSE,
   ents |-> <<Span(0, Len(x)), Span(Len(x) + 1, Len(x) + 1 + Len(y))>>,
   noun_chunks |-> <<>>,
   tokens |-> <<Tok(0, Len(x), x, FALSE, FALSE, FALSE, "ROOT", 1),
                Tok(Len(x) + 1, Len(y), y, FALSE, FALSE, FALSE, "conj", 1)>>,
   sents |-> <<Span(0, Len(x) + 1 + Len(y))>>]

\* "ant bee", "bee cat", "cat dog", "dog eel": a corpus whose co-occurrences
\* chain five concepts
ChainContents == <<PairContent(W_ant, W_bee), PairContent(W_bee, W_cat),
                   PairContent(W_cat, W_dog), PairContent(W_dog, W_eel)>>

Contents == {ContentA, ContentB, ContentBad} \cup Range(ChainContents)

W_hub == <<"h","u","b">>

\* "hub <d>": one entity and a digit
HubContent(d) ==
  [text |-> W_hub \o SP \o <<d>>, raises |-> FALSE,
   ents |-> <<Span(0, 3)>>,
   noun_chunks |-> <<>>,
   tokens |-> <<Tok(0, 3, W_hub, FALSE, FALSE, FALSE, "ROOT", 1),
                Tok(4, 1, <<d>>, FALSE, FALSE, FALSE, "nummod", 1)>>,
   sents |-> <<Span(0, 5)>>]

\* "hub bee", "hub 1", ..., "hub 9": ten documents that mention one concept
FanContents == <<PairContent(W_hub, W_bee)>> \o [i \in 1..9 |-> HubContent(DigitChars[i + 1])]

\* "how many hub"
QuestionCount ==
  [text |-> <<"h", "o", "w", " ", "m", "a", "n", "y", " ", "h", "u", "b">>, raises |-> FALSE,
   ents |-> <<Span(9, 12)>>, noun_chunks |-> <<>>, tokens |-> <<>>, sents |-> <<>>]

\* "what is hub"
QuestionDefinition ==
  [text |-> <<"w", "h", "a", "t", " ", "i", "s", " ", "h", "u", "b">>, raises |-> FALSE,
   ents |-> <<Span(8, 11)>>, noun_chunks |-> <<>>, tokens |-> <<>>, sents |-> <<>>]

\* "hub"
QuestionGeneral ==
  [text |-> <<"h", "u", "b">>, raises |-> FALSE,
   ents |-> <<Span(0, 3)>>, noun_chunks |-> <<>>, tokens |-> <<>>, sents |-> <<>>]

\* "bee related hub"
QuestionRelated ==
  [text |-> <<"b", "e", "e", " ", "r", "e", "l", "a", "t", "e", "d", " ", "h", "u", "b">>, raises |-> FALSE,
   ents |-> <<Span(0, 3), Span(12, 15)>>, noun_chunks |-> <<>>, tokens |-> <<>>, sents |-> <<>>]

\* "where hub"
QuestionWhere ==
  [text |-> <<"w", "h", "e", "r", "e", " ", "h", "u", "b">>, raises |-> FALSE,
   ents |-> <<Span(6, 9)>>, noun_chunks |-> <<>>, tokens |-> <<>>, sents |-> <<>>]

\* "what is eel": names a concept no document has
QuestionUnknown ==
  [text |-> <<"w", "h", "a", "t", " ", "i", "s", " ", "e", "e", "l">>, raises |-> FALSE,
   ents |-> <<Span(8, 11)>>, noun_chunks |-> <<>>, tokens |-> <<>>, sents |-> <<>>]

\* "the hub": the analysis finds no entity and no noun chunk
QuestionNoEntity ==
  [text |-> <<"t", "h", "e", " ", "h", "u", "b">>, raises |-> FALSE,
   ents |-> <<>>, noun_chunks |-> <<>>, tokens |-> <<>>, sents |-> <<>>]

\* "hub !!": the analysis raises
QuestionRaising ==
  [text |-> <<"h", "u", "b", " ", "!", "!">>, raises |-> TRUE,
   ents |-> <<>>, noun_chunks |-> <<>>, tokens |-> <<>>, sents |-> <<>>]

QuestionContents ==
  {QuestionCount, QuestionDefinition, QuestionGeneral, QuestionRelated, QuestionWhere,
   QuestionUnknown, QuestionNoEntity, QuestionRaising}

\* "acme 123 123": an entity, a number that is an entity too, and the number
\* again
TextDigits == W_acme \o SP \o <<"1","2","3">> \o SP \o <<"1","2","3">>

ContentDigits ==
  [text |-> TextDigits, raises |-> FALSE,
   ents |-> <<Span(0, 4), Span(5, 8)>>,
   noun_chunks |-> <<>>,
   tokens |-> <<Tok(0, 4, W_acme, FALSE, FALSE, FALSE, "ROOT", 1),
                Tok(5, 3, <<"1","2","3">>, FALSE, FALSE, FALSE, "nummod", 3),
                Tok(9, 3, <<"1","2","3">>, FALSE, FALSE, FALSE, "appos", 1)>>,
   sents |-> <<Span(0, 12)>>]

AllContents == Contents \cup Range(FanContents) \cup QuestionContents \cup {ContentDigits}

\* the spaCy analysis of a text (self.nlp(text))
NlpOf(text) ==
  CHOOSE c \in AllContents : c.text = text

\* span.text
SpanText(doc, sp) == SubSeq(doc.text, sp.start_char + 1, sp.end_char)

(***************************************************************************)
(* NLPService: concept and relation extraction.                            *)
(***************************************************************************)
\* a concept record whose id is the digest of the surface text, not of the
\* canonical key
ConceptIdFromLabel(key, label, type, entity_label, doc_id, a, b) ==
  [id |-> _generate_concept_id(label), label |-> label, canonical_key |-> key,
   type |-> type, entity_label |-> entity_label, doc_id |-> doc_id,
   span_start |-> a, span_end |-> b]

\* the concept record appended by _extract_concepts
Concept(key, label, type, entity_label, doc_id, a, b) ==
  [id |-> _generate_concept_id(key), label |-> label, canonical_key |-> key,
   type |-> type, entity_label |-> entity_label, doc_id |-> doc_id,
   span_start |-> a, span_end |-> b]

SeenKeys(concepts) == {concepts[i].canonical_key : i \in 1..Len(concepts)}

\* for ent in doc.ents (nlp_service.py:56-70)
RECURSIVE AddEntities(_, _, _, _)
AddEntities(doc, spans, concepts, doc_id) ==
  IF spans = <<>> THEN concepts
  ELSE LET text == SpanText(doc, Head(spans))
           key == _canonicalize_concept(text)
       IN IF _is_valid_concept(text) /\ key \notin SeenKeys(concepts)
          THEN AddEntities(doc, Tail(spans),
                 Append(concepts, Concept(key, Strip(text), "entity", "ENT", doc_id,
                                          Head(spans).start_char, Head(spans).end_char)),
                 doc_id)
          ELSE AddEntities(doc, Tail(spans), concepts, doc_id)

\* for chunk in doc.noun_chunks (nlp_service.py:73-87)
RECURSIVE AddNounChunks(_, _, _, _)
AddNounChunks(doc, spans, concepts, doc_id) ==
  IF spans = <<>> THEN concepts
  ELSE LET text == SpanText(doc, Head(spans))
           key == _canonicalize_concept(text)
       IN IF /\ _is_valid_concept(text)
             /\ key \notin SeenKeys(concepts)
             /\ Len(concepts) < max_concepts_per_doc
          THEN AddNounChunks(doc, Tail(spans),
                 Append(concepts, Concept(key, Strip(text), "noun_phrase", "PHRASE", doc_id,
                                          Head(spans).start_char, Head(spans).end_char)),
                 doc_id)
          ELSE AddNounChunks(doc, Tail(spans), concepts, doc_id)

\* the lemmas counted by _extract_keywords, one per counted token, in order
RECURSIVE CountedLemmas(_)
CountedLemmas(tokens) ==
  IF tokens = <<>> THEN <<>>
  ELSE LET t == Head(tokens)
       IN IF ~t.is_stop /\ ~t.is_punct /\ ~t.is_space /\ t.len >= min_concept_length
          THEN <<Lower(t.lemma)>> \o CountedLemmas(Tail(tokens))
          ELSE CountedLemmas(Tail(tokens))

\* the keys of word_freq in insertion order
RECURSIVE FirstOccurrences(_, _)
FirstOccurrences(ws, acc) ==
  IF ws = <<>> THEN acc
  ELSE IF Head(ws) \in Range(acc) THEN FirstOccurrences(Tail(ws), acc)
  ELSE FirstOccurrences(Tail(ws), Append(acc, Head(ws)))

Freq(w, ws) == Cardinality({i \in 1..Len(ws) : ws[i] = w})

\* sorted(word_freq.items(), key=freq, reverse=True): stable, so words of one
\* frequency keep their insertion order
RECURSIVE ByFreqDesc(_, _, _)
ByFreqDesc(keys, ws, f) ==
  IF f = 0 THEN <<>>
  ELSE LET AtF(w) == Freq(w, ws) = f
       IN SelectSeq(keys, AtF) \o ByFreqDesc(keys, ws, f - 1)

\* NLPService._extract_keywords
_extract_keywords(doc) ==
  LET ws == CountedLemmas(doc.tokens)
      keys == FirstOccurrences(ws, <<>>)
      sorted_words == ByFreqDesc(keys, ws, Len(ws))
      top == SubSeq(sorted_words, 1, IF Len(sorted_words) < MaxKeywords
                                     THEN Len(sorted_words) ELSE MaxKeywords)
      Frequent(w) == Freq(w, ws) >= MinKeywordFreq
  IN SelectSeq(top, Frequent)

\* for keyword in keywords (nlp_service.py:90-106)
RECURSIVE AddKeywords(_, _, _)
AddKeywords(keywords, concepts, doc_id) ==
  IF keywords = <<>> \/ Len(concepts) >= max_concepts_per_doc THEN concepts
  ELSE LET key == _canonicalize_concept(Head(keywords))
       IN IF key \notin SeenKeys(concepts)
          THEN AddKeywords(Tail(keywords),
                 Append(concepts, Concept(key, Head(keywords), "keyword", "KEYWORD",
                                          doc_id, -1, -1)),
                 doc_id)
          ELSE AddKeywords(Tail(keywords), concepts, doc_id)

\* NLPService._extract_concepts
_extract_concepts(doc, doc_id) ==
  AddKeywords(_extract_keywords(doc),
              AddNounChunks(doc, doc.noun_chunks,
                            AddEntities(doc, doc.ents, <<>>, doc_id), doc_id),
              doc_id)

\* NLPService._determine_relation_type
_determine_relation_type(dependency) ==
  CASE dependency = "nsubj" -> "SUBJECT_OF"
    [] dependency = "dobj" -> "OBJECT_OF"
    [] dependency = "pobj" -> "PREPOSITIONAL_OBJECT"
    [] dependency = "compound" -> "COMPOUND_WITH"
    [] dependency = "amod" -> "MODIFIES"
    [] dependency = "poss" -> "POSSESSES"
    [] OTHER -> "RELATED_TO"

\* the concepts entered in concept_spans, in insertion order
SpannedConcepts(concepts) ==
  LET HasSpan(c) == c.span_start >= 0 /\ c.span_end >= 0
  IN SelectSeq(concepts, HasSpan)

\* NLPService._find_concept_for_token: index into the spanned concepts of the
\* first span holding the token's start offset, 0 for None
_find_concept_for_token(token, spanned) ==
  LET Holds(k) == spanned[k].span_start <= token.idx /\ token.idx < spanned[k].span_end
  IN IF \E k \in 1..Len(spanned) : Holds(k)
     THEN CHOOSE k \in 1..Len(spanned) : Holds(k) /\ \A j \in 1..(k - 1) : ~Holds(j)
     ELSE 0

Relation(src, tgt, type, weight, doc_id, dep) ==
  [source_id |-> src, target_id |-> tgt, relation_type |-> type, weight |-> weight,
   doc_id |-> doc_id, dependency |-> dep]

\* dependency-based relations (nlp_service.py:121-135); weight 1.0 in thousandths
RECURSIVE DependencyRelations(_, _, _, _)
DependencyRelations(doc, toks, spanned, doc_id) ==
  IF toks = <<>> THEN <<>>
  ELSE LET token == Head(toks)
           h == _find_concept_for_token(doc.tokens[token.head], spanned)
           c == _find_concept_for_token(token, spanned)
           rest == DependencyRelations(doc, Tail(toks), spanned, doc_id)
       IN IF /\ token.dep_ \in {"nsubj", "dobj", "pobj", "compound"}
             /\ h # 0 /\ c # 0
             /\ spanned[h].id # spanned[c].id
          THEN <<Relation(spanned[h].id, spanned[c].id,
                          _determine_relation_type(token.dep_), 1000, doc_id, token.dep_)>>
               \o rest
          ELSE rest

Abs(x) == IF x < 0 THEN -x ELSE x

CoOccurFloor == 100

\* the quotient without the floor of max(0.1, ...)
CoOccurWeightUnfloored(distance) == (1000 * 100) \div (100 + distance)

\* max(0.1, 1.0 / (1 + distance / 100)), in thousandths (rounded down)
CoOccurWeight(distance) ==
  LET w == (1000 * 100) \div (100 + distance)
  IN IF w < CoOccurFloor THEN CoOccurFloor ELSE w

\* the i < j pairs of one sentence (nlp_service.py:146-162), row by row
RECURSIVE PairsFrom(_, _, _, _)
PairsFrom(sc, i, j, doc_id) ==
  IF i > Len(sc) THEN <<>>
  ELSE IF j > Len(sc) THEN PairsFrom(sc, i + 1, i + 2, doc_id)
  ELSE <<Relation(sc[i].id, sc[j].id, "CO_OCCURS",
                  CoOccurWeight(Abs(sc[i].span_start - sc[j].span_start)),
                  doc_id, "co_occurrence")>>
       \o PairsFrom(sc, i, j + 1, doc_id)

\* co-occurrence relations (nlp_service.py:138-162)
RECURSIVE CoOccurrenceRelations(_, _, _)
CoOccurrenceRelations(sents, concepts, doc_id) ==
  IF sents = <<>> THEN <<>>
  ELSE LET sent == Head(sents)
           Inside(c) == c.span_start >= sent.start_char /\ c.span_end <= sent.end_char
       IN PairsFrom(SelectSeq(concepts, Inside), 1, 2, doc_id)
          \o CoOccurrenceRelations(Tail(sents), concepts, doc_id)

\* NLPService._extract_relations
_extract_relations(doc, concepts, doc_id) ==
  DependencyRelations(doc, doc.tokens, SpannedConcepts(concepts), doc_id)
  \o CoOccurrenceRelations(doc.sents, concepts, doc_id)

\* NLPService.extract_concepts_and_relations: any exception of the pipeline is
\* caught and turned into ([], [])
extract_concepts_and_relations(text, doc_id) ==
  LET doc == NlpOf(text)
  IN IF doc.raises THEN [concepts |-> <<>>, relations |-> <<>>]
     ELSE LET concepts == _extract_concepts(doc, doc_id)
          IN [concepts |-> concepts,
              relations |-> _extract_relations(doc, concepts, doc_id)]

(***************************************************************************)
(* State.                                                                  *)
(***************************************************************************)
VARIABLES
  ingest_jobs,   \* db.ingest_jobs: sequence of job records, job id = index
  documents,     \* db.documents: sequence of document records, in insertion order
  graph_sync,    \* db.graph_sync: sequence of sync records, sync id = index
  neo4j,         \* the graph store: [nodes, rels]
  procs,         \* per request thread: position in its handler and the handler's locals
  responses,     \* per request thread: the last HTTP response it returned
  ingest_runs,   \* per job id: the locals _process_ingestion_job ended with (its log line)
  build_runs,    \* per sync id: the locals _build_knowledge_graph ended with (its log line)
  qa_logs,       \* db.qa_logs: sequence of QALog records, in insertion order
  demo_state     \* the dict demo_state of the demonstration application

vars == <<ingest_jobs, documents, graph_sync, neo4j, procs, responses, ingest_runs, build_runs,
         qa_logs, demo_state>>

MaxThreads == 2
Threads == 1..MaxThreads

EmptyFn == [x \in {} |-> 0]

Upd(f, k, v) == [x \in DOMAIN f \cup {k} |-> IF x = k THEN v ELSE f[x]]

Min(a, b) == IF a < b THEN a ELSE b

\* Python's None, where a record may stand
None == [none |-> TRUE]

Idle == [pc |-> "idle"]

\* str(ObjectId) of the n-th inserted document: never equal to a concept id
DocId(n) == 2^16 + n

(***************************************************************************)
(* MongoDBService.                                                         *)
(***************************************************************************)
\* a get_ingest_job whose find_one has lost its _id filter: any id finds a job
get_ingest_job_unfiltered(job_id) ==
  IF job_id \in 1..Len(ingest_jobs) THEN ingest_jobs[job_id]
  ELSE IF ingest_jobs # <<>> THEN ingest_jobs[1] ELSE None

\* MongoDBService.get_ingest_job
get_ingest_job(job_id) ==
  IF job_id \in 1..Len(ingest_jobs) THEN ingest_jobs[job_id] ELSE None

\* an update_ingest_job_status that updates every job (update_many, no filter)
update_ingest_job_status_many(jobs, job_id, status, error) ==
  [j \in 1..Len(jobs) |->
     IF error # None THEN [jobs[j] EXCEPT !.status = status, !.error = error]
     ELSE [jobs[j] EXCEPT !.status = status]]

\* MongoDBService.update_ingest_job_status: the error field is set only when
\* an error text is given
update_ingest_job_status(jobs, job_id, status, error) ==
  IF job_id \in 1..Len(jobs)
  THEN [jobs EXCEPT ![job_id] =
          IF error # None THEN [@ EXCEPT !.status = status, !.error = error]
          ELSE [@ EXCEPT !.status = status]]
  ELSE jobs

\* a get_document_by_hash that never finds the document
get_document_by_hash_miss(docs, content_hash) == None

\* MongoDBService.get_document_by_hash: find_one, the first match or None
get_document_by_hash(docs, content_hash) ==
  IF \E i \in 1..Len(docs) : docs[i].content_hash = content_hash
  THEN docs[CHOOSE i \in 1..Len(docs) :
              /\ docs[i].content_hash = content_hash
              /\ \A j \in 1..(i - 1) : docs[j].content_hash # content_hash]
  ELSE None

\* MongoDBService.save_document: insert_one
save_document(docs, document) ==
  Append(docs, [document EXCEPT !._id = DocId(Len(docs) + 1)])

\* MongoDBService.get_documents_by_job
get_documents_by_job(job_id) ==
  LET OfJob(d) == d.ingest_job_id = job_id
  IN SelectSeq(documents, OfJob)

\* MongoDBService.create_graph_sync
create_graph_sync(ingest_job_id) ==
  [ingest_job_id |-> ingest_job_id, status |-> "pending",
   stats |-> [nodes_created |-> 0, edges_created |-> 0, concepts_merged |-> 0],
   error |-> None]

\* an update_graph_sync that updates every sync record (update_many, no filter)
update_graph_sync_many(syncs, sync_id, status, stats, error) ==
  [s \in 1..Len(syncs) |->
     [status |-> status,
      ingest_job_id |-> syncs[s].ingest_job_id,
      stats |-> IF stats # None THEN stats ELSE syncs[s].stats,
      error |-> IF error # None THEN error ELSE syncs[s].error]]

\* an update_graph_sync whose update_one never writes
update_graph_sync_lost(syncs, sync_id, status, stats, error) == syncs

\* MongoDBService.update_graph_sync: stats and error are set only when given
update_graph_sync(syncs, sync_id, status, stats, error) ==
  IF sync_id \in 1..Len(syncs)
  THEN [syncs EXCEPT ![sync_id] =
          [status |-> status,
           ingest_job_id |-> @.ingest_job_id,
           stats |-> IF stats # None THEN stats ELSE @.stats,
           error |-> IF error # None THEN error ELSE @.error]]
  ELSE syncs

(***************************************************************************)
(* Neo4jService: merge-by-identity upserts.  A node is identified by its   *)
(* label and id, a relationship by (start node, end node, type).           *)
(***************************************************************************)
\* MERGE (c:Concept {id: $id}) SET ...; RETURN c always yields the node
create_concept_node(db, concept) ==
  [db |-> [db EXCEPT !.nodes = Upd(@, <<"Concept", concept.id>>,
                                   [label |-> concept.label,
                                    canonical_key |-> concept.canonical_key])],
   ok |-> TRUE]

\* MERGE (d:Document {id: $id}) SET ...
create_document_node(db, document) ==
  [db |-> [db EXCEPT !.nodes = Upd(@, <<"Document", document.id>>,
                                   [source_uri |-> document.source_uri,
                                    content_hash |-> document.content_hash])],
   ok |-> TRUE]

\* SET r += $properties
MergeProps(old, new) ==
  [f \in DOMAIN old \cup DOMAIN new |-> IF f \in DOMAIN new THEN new[f] ELSE old[f]]

\* the (start node, end node, type) of a relationship; the fourth component of
\* its key tells parallel relationships of one triple apart
Triple(k) == <<k[1], k[2], k[3]>>

Triples(relKeys) == {Triple(k) : k \in relKeys}

\* a create_relationship that CREATEs where the code MERGEs: every call adds a
\* relationship, also when the triple is already there
create_relationship_always(db, edge) ==
  LET srcs == {k \in DOMAIN db.nodes : k[2] = edge.source_id}
      tgts == {k \in DOMAIN db.nodes : k[2] = edge.target_id}
      Copies(a, b) == Cardinality({k \in DOMAIN db.rels :
                                     Triple(k) = <<a, b, edge.relationship_type>>})
      keys == {<<a, b, edge.relationship_type, Copies(a, b) + 1>> : a \in srcs, b \in tgts}
  IN [db |-> [db EXCEPT !.rels =
                [k \in DOMAIN db.rels \cup keys |->
                   IF k \in keys THEN edge.properties ELSE db.rels[k]]],
      ok |-> keys # {}]

\* MATCH (source {id}) MATCH (target {id}) MERGE (source)-[r:TYPE]->(target)
\* SET r += $properties RETURN r: the relationships of the triple are matched,
\* one is created when there is none; no row, hence False, when an end is missing
create_relationship(db, edge) ==
  LET srcs == {k \in DOMAIN db.nodes : k[2] = edge.source_id}
      tgts == {k \in DOMAIN db.nodes : k[2] = edge.target_id}
      triples == {<<a, b, edge.relationship_type>> : a \in srcs, b \in tgts}
      matched == {k \in DOMAIN db.rels : Triple(k) \in triples}
      created == {<<tr[1], tr[2], tr[3], 1>> : tr \in triples \ Triples(DOMAIN db.rels)}
  IN [db |-> [db EXCEPT !.rels =
                [k \in DOMAIN db.rels \cup created |->
                   IF k \in matched THEN MergeProps(db.rels[k], edge.properties)
                   ELSE IF k \in created THEN edge.properties
                   ELSE db.rels[k]]],
      ok |-> triples # {}]

(***************************************************************************)
(* api/ingestion.py.  A request carries files and URLs.  A file is         *)
(* [filename, text, raises]: raises = TRUE when reading or storing it      *)
(* throws.  A URL is [url, text]: text = <<>> when the scraper returns no  *)
(* content.                                                                *)
(***************************************************************************)
MAX_CONTENT_LENGTH == 104857600

\* WebScraperService._clean_text on one line of text: runs of two or more
\* spaces become one space, then strip
RECURSIVE CollapseSpaces(_)
CollapseSpaces(s) ==
  IF s = <<>> THEN <<>>
  ELSE IF Head(s) = " " /\ Len(s) > 1 /\ s[2] = " " THEN CollapseSpaces(Tail(s))
  ELSE <<Head(s)>> \o CollapseSpaces(Tail(s))

_clean_text(text) == Strip(CollapseSpaces(text))

\* WebScraperService.get_website_text_content: <<>> stands for None
get_website_text_content(u) == IF u.text = <<>> THEN <<>> ELSE _clean_text(u.text)

\* hashlib.md5(content.encode('utf-8')).hexdigest()
ContentHash(content) == Md5Hex(content)

NamedFiles(files) ==
  LET Named(f) == f.filename # ""
  IN SelectSeq(files, Named)

RECURSIVE SumSizes(_)
SumSizes(items) == IF items = <<>> THEN 0 ELSE Head(items).size + SumSizes(Tail(items))

\* create_ingest_job (ingestion.py:23-111) up to the creation of the job
\* record; _process_ingestion_job then runs in the same request
create_ingest_job(t, files, urls) ==
  /\ procs[t].pc = "idle"
  /\ IF files = <<>> /\ urls = <<>>
     THEN /\ responses' = [responses EXCEPT ![t] =
                 [op |-> "create_ingest_job", code |-> 400]]
          /\ UNCHANGED <<ingest_jobs, procs>>
     ELSE LET inputs == NamedFiles(files) \o urls
              total_bytes == SumSizes(inputs)
          IN IF total_bytes > MAX_CONTENT_LENGTH
             THEN /\ responses' = [responses EXCEPT ![t] =
                         [op |-> "create_ingest_job", code |-> 413]]
                  /\ UNCHANGED <<ingest_jobs, procs>>
             ELSE /\ ingest_jobs' = Append(ingest_jobs,
                         [status |-> "queued", error |-> None,
                          inputs |-> Len(inputs), total_bytes |-> total_bytes])
                  /\ procs' = [procs EXCEPT ![t] =
                         [pc |-> "ingest_begin", job_id |-> Len(ingest_jobs) + 1,
                          files |-> files, urls |-> urls, i |-> 1,
                          processed_docs |-> <<>>, errors |-> <<>>,
                          pending |-> None]]
                  /\ UNCHANGED responses
  /\ UNCHANGED <<documents, graph_sync, neo4j, ingest_runs, build_runs, qa_logs, demo_state>>

\* ingestion.py:151-154
IngestBegin(t) ==
  /\ procs[t].pc = "ingest_begin"
  /\ ingest_jobs' = update_ingest_job_status(ingest_jobs, procs[t].job_id, "processing", None)
  /\ procs' = [procs EXCEPT ![t].pc = "ingest_files", ![t].i = 1]
  /\ UNCHANGED <<documents, graph_sync, neo4j, responses, ingest_runs, build_runs, qa_logs, demo_state>>

Document(source_type, source_uri, content, job_id) ==
  [_id |-> 0, source_type |-> source_type, source_uri |-> source_uri,
   content_hash |-> ContentHash(content), content_text |-> content,
   byte_size |-> Len(content), ingest_job_id |-> job_id]

\* one iteration of "for file in files" up to the duplicate check
\* (ingestion.py:157-168); a file without a name is passed over
IngestFile(t) ==
  LET p == procs[t] IN
  /\ p.pc = "ingest_files"
  /\ p.i <= Len(p.files)
  /\ LET file == p.files[p.i]
         existing_doc == get_document_by_hash(documents, ContentHash(file.text))
     IN procs' = [procs EXCEPT ![t] =
          IF file.filename = "" THEN [p EXCEPT !.i = p.i + 1]
          ELSE IF file.raises
          THEN [p EXCEPT !.i = p.i + 1,
                         !.errors = Append(@, [kind |-> "file", name |-> file.filename])]
          ELSE IF existing_doc # None
          THEN [p EXCEPT !.i = p.i + 1,
                         !.processed_docs = Append(@, existing_doc._id)]
          ELSE [p EXCEPT !.pc = "ingest_save",
                         !.pending = Document("txt", file.filename, file.text, p.job_id)]]
  /\ UNCHANGED <<ingest_jobs, documents, graph_sync, neo4j, responses, ingest_runs, build_runs, qa_logs, demo_state>>

\* the files are done: "if urls:" (ingestion.py:192-193)
IngestFilesDone(t) ==
  LET p == procs[t] IN
  /\ p.pc = "ingest_files"
  /\ p.i > Len(p.files)
  /\ procs' = [procs EXCEPT ![t].pc = IF p.urls # <<>> THEN "ingest_urls" ELSE "ingest_finish",
                            ![t].i = 1]
  /\ UNCHANGED <<ingest_jobs, documents, graph_sync, neo4j, responses, ingest_runs, build_runs, qa_logs, demo_state>>

\* one iteration of "for url in urls" up to the duplicate check
\* (ingestion.py:195-206, 223-226)
IngestUrl(t) ==
  LET p == procs[t] IN
  /\ p.pc = "ingest_urls"
  /\ p.i <= Len(p.urls)
  /\ LET url == p.urls[p.i]
         content == get_website_text_content(url)
         existing_doc == get_document_by_hash(documents, ContentHash(content))
     IN procs' = [procs EXCEPT ![t] =
          IF content = <<>>
          THEN [p EXCEPT !.i = p.i + 1,
                         !.errors = Append(@, [kind |-> "url_content", name |-> url.url])]
          ELSE IF existing_doc # None
          THEN [p EXCEPT !.i = p.i + 1,
                         !.processed_docs = Append(@, existing_doc._id)]
          ELSE [p EXCEPT !.pc = "ingest_save",
                         !.pending = Document("url", url.url, content, p.job_id)]]
  /\ UNCHANGED <<ingest_jobs, documents, graph_sync, neo4j, responses, ingest_runs, build_runs, qa_logs, demo_state>>

\* the URLs are done (ingestion.py:232-233)
IngestUrlsDone(t) ==
  LET p == procs[t] IN
  /\ p.pc = "ingest_urls"
  /\ p.i > Len(p.urls)
  /\ procs' = [procs EXCEPT ![t].pc = "ingest_finish"]
  /\ UNCHANGED <<ingest_jobs, documents, graph_sync, neo4j, responses, ingest_runs, build_runs, qa_logs, demo_state>>

\* save_document and processed_docs.append (ingestion.py:182-184, 220-222)
IngestSave(t) ==
  LET p == procs[t] IN
  /\ p.pc = "ingest_save"
  /\ documents' = save_document(documents, p.pending)
  /\ procs' = [procs EXCEPT ![t] =
       [p EXCEPT !.pc = IF p.pending.source_type = "txt" THEN "ingest_files" ELSE "ingest_urls",
                 !.i = p.i + 1,
                 !.processed_docs = Append(@, DocId(Len(documents) + 1)),
                 !.pending = None]]
  /\ UNCHANGED <<ingest_jobs, graph_sync, neo4j, responses, ingest_runs, build_runs, qa_logs, demo_state>>

\* an error summary that joins every message
ErrorSummaryAll(prefix, errors) == [prefix |-> prefix, messages |-> errors]

\* '; '.join(errors[:3]) behind its prefix
ErrorSummary(prefix, errors) ==
  [prefix |-> prefix, messages |-> SubSeq(errors, 1, Min(3, Len(errors)))]

\* the final status update (ingestion.py:235-252) and the 201 response
\* (ingestion.py:102-107)
IngestFinish(t) ==
  LET p == procs[t] IN
  /\ p.pc = "ingest_finish"
  /\ ingest_jobs' =
       IF p.errors # <<>> /\ p.processed_docs = <<>>
       THEN update_ingest_job_status(ingest_jobs, p.job_id, "failed",
                                     ErrorSummary("All inputs failed", p.errors))
       ELSE IF p.errors # <<>>
       THEN update_ingest_job_status(ingest_jobs, p.job_id, "completed",
                                     ErrorSummary("Partial success. Errors", p.errors))
       ELSE update_ingest_job_status(ingest_jobs, p.job_id, "completed", None)
  /\ procs' = [procs EXCEPT ![t] = Idle]
  /\ responses' = [responses EXCEPT ![t] =
       [op |-> "create_ingest_job", code |-> 201, job_id |-> p.job_id, status |-> "queued"]]
  /\ ingest_runs' = Upd(ingest_runs, p.job_id,
       [files |-> p.files, urls |-> p.urls, processed_docs |-> p.processed_docs,
        errors |-> p.errors, escaped |-> FALSE])
  /\ UNCHANGED <<documents, graph_sync, neo4j, build_runs, qa_logs, demo_state>>

\* an exception that escapes the per-input handlers, raised when the scraper
\* is constructed for the URLs (ingestion.py:193): caught at ingestion.py:254-256
IngestEscape(t) ==
  LET p == procs[t] IN
  /\ p.pc = "ingest_urls"
  /\ p.i = 1
  /\ ingest_jobs' = update_ingest_job_status(ingest_jobs, p.job_id, "failed",
                                             [prefix |-> "exception", messages |-> <<>>])
  /\ procs' = [procs EXCEPT ![t] = Idle]
  /\ responses' = [responses EXCEPT ![t] =
       [op |-> "create_ingest_job", code |-> 201, job_id |-> p.job_id, status |-> "queued"]]
  /\ ingest_runs' = Upd(ingest_runs, p.job_id,
       [files |-> p.files, urls |-> p.urls, processed_docs |-> p.processed_docs,
        errors |-> p.errors, escaped |-> TRUE])
  /\ UNCHANGED <<documents, graph_sync, neo4j, build_runs, qa_logs, demo_state>>

(***************************************************************************)
(* api/graph.py: build.                                                    *)
(***************************************************************************)
\* a GraphEdge with its ends exchanged
GraphEdgeReversed(source_id, target_id, relationship_type, properties) ==
  [source_id |-> target_id, target_id |-> source_id,
   relationship_type |-> relationship_type, properties |-> properties]

GraphEdge(source_id, target_id, relationship_type, properties) ==
  [source_id |-> source_id, target_id |-> target_id,
   relationship_type |-> relationship_type, properties |-> properties]

\* the accumulator of one build: graph store, stats, in-job concept map
Acc(db, stats, all_concepts) == [db |-> db, stats |-> stats, all_concepts |-> all_concepts]

\* stats[counter] += 1 when the upsert returned True
Count(stats, counter, ok) ==
  IF ok THEN [stats EXCEPT ![counter] = @ + 1] ELSE stats

\* a merge that leaves the existing entry as it is
MergeConceptLost(all_concepts, canonical_key, doc_id) == all_concepts

\* existing['doc_ids'].append(doc_id) (graph.py:247-250)
MergeConcept(all_concepts, canonical_key, doc_id) ==
  [all_concepts EXCEPT ![canonical_key].doc_ids = Append(@, doc_id)]

\* "for concept_data in concepts" (graph.py:243-279)
RECURSIVE ProcessConcepts(_, _, _)
ProcessConcepts(acc, concepts, doc_id) ==
  IF concepts = <<>> THEN acc
  ELSE
    LET concept_data == Head(concepts)
        canonical_key == concept_data.canonical_key
        merged == canonical_key \in DOMAIN acc.all_concepts
        node == IF merged THEN [db |-> acc.db, ok |-> FALSE]
                ELSE create_concept_node(acc.db,
                       [id |-> concept_data.id, label |-> concept_data.label,
                        canonical_key |-> canonical_key])
        all1 == IF merged
                THEN MergeConcept(acc.all_concepts, canonical_key, doc_id)
                ELSE Upd(acc.all_concepts, canonical_key,
                         [id |-> concept_data.id, label |-> concept_data.label,
                          doc_ids |-> <<doc_id>>])
        stats1 == IF merged THEN [acc.stats EXCEPT !.concepts_merged = @ + 1]
                  ELSE Count(acc.stats, "nodes_created", node.ok)
        mentions == create_relationship(node.db,
                      GraphEdge(doc_id, concept_data.id, "MENTIONS",
                                [span_start |-> concept_data.span_start,
                                 span_end |-> concept_data.span_end]))
    IN ProcessConcepts(Acc(mentions.db, Count(stats1, "edges_created", mentions.ok), all1),
                       Tail(concepts), doc_id)

\* "for relation in relations" (graph.py:282-295)
RECURSIVE ProcessRelations(_, _, _)
ProcessRelations(acc, relations, doc_id) ==
  IF relations = <<>> THEN acc
  ELSE
    LET relation == Head(relations)
        rel == create_relationship(acc.db,
                 GraphEdge(relation.source_id, relation.target_id, relation.relation_type,
                           [weight |-> relation.weight, dependency |-> relation.dependency,
                            doc_id |-> doc_id]))
    IN ProcessRelations(Acc(rel.db, Count(acc.stats, "edges_created", rel.ok),
                            acc.all_concepts),
                        Tail(relations), doc_id)

\* the body of "for doc in documents" (graph.py:227-298)
ProcessDocument(acc, doc) ==
  LET doc_id == doc._id
      with_doc == create_document_node(acc.db,
                    [id |-> doc_id, source_uri |-> doc.source_uri,
                     content_hash |-> doc.content_hash]).db
      extracted == extract_concepts_and_relations(doc.content_text, doc_id)
      after_concepts == ProcessConcepts(Acc(with_doc, acc.stats, acc.all_concepts),
                                        extracted.concepts, doc_id)
      after_relations == ProcessRelations(after_concepts, extracted.relations, doc_id)
  IN [after_relations EXCEPT !.stats.documents_processed = @ + 1]

\* build_graph (graph.py:18-45) up to the creation of the sync record;
\* job_id = 0 stands for a request without ingest_job_id
build_graph(t, ingest_job_id) ==
  /\ procs[t].pc = "idle"
  /\ LET job == get_ingest_job(ingest_job_id)
         Reject(code) == /\ responses' = [responses EXCEPT ![t] =
                                 [op |-> "build_graph", code |-> code,
                                  ingest_job_id |-> ingest_job_id]]
                         /\ UNCHANGED <<graph_sync, procs>>
     IN IF ingest_job_id = 0 THEN Reject(400)
        ELSE IF job = None THEN Reject(404)
        ELSE IF job.status # "completed" THEN Reject(400)
        ELSE /\ graph_sync' = Append(graph_sync, create_graph_sync(ingest_job_id))
             /\ procs' = [procs EXCEPT ![t] =
                    [pc |-> "build_begin", sync_id |-> Len(graph_sync) + 1,
                     ingest_job_id |-> ingest_job_id]]
             /\ UNCHANGED responses
  /\ UNCHANGED <<ingest_jobs, documents, neo4j, ingest_runs, build_runs, qa_logs, demo_state>>

\* graph.py:210-223; before holds the node and relationship identities the
\* build found in the graph store
BuildBegin(t) ==
  LET p == procs[t] IN
  /\ p.pc = "build_begin"
  /\ graph_sync' = update_graph_sync(graph_sync, p.sync_id, "in_progress", None, None)
  /\ procs' = [procs EXCEPT ![t] =
       [pc |-> "build_docs", sync_id |-> p.sync_id, ingest_job_id |-> p.ingest_job_id,
        docs |-> get_documents_by_job(p.ingest_job_id), i |-> 1,
        stats |-> [nodes_created |-> 0, edges_created |-> 0, concepts_merged |-> 0,
                   documents_processed |-> 0],
        all_concepts |-> EmptyFn,
        before |-> [nodes |-> DOMAIN neo4j.nodes, rels |-> DOMAIN neo4j.rels]]]
  /\ UNCHANGED <<ingest_jobs, documents, neo4j, responses, ingest_runs, build_runs, qa_logs, demo_state>>

\* one iteration of "for doc in documents" (graph.py:226-302)
BuildDocument(t) ==
  LET p == procs[t] IN
  /\ p.pc = "build_docs"
  /\ p.i <= Len(p.docs)
  /\ LET acc == ProcessDocument(Acc(neo4j, p.stats, p.all_concepts), p.docs[p.i])
     IN /\ neo4j' = acc.db
        /\ procs' = [procs EXCEPT ![t] =
             [p EXCEPT !.i = p.i + 1, !.stats = acc.stats, !.all_concepts = acc.all_concepts]]
  /\ UNCHANGED <<ingest_jobs, documents, graph_sync, responses, ingest_runs, build_runs, qa_logs, demo_state>>

BuildResponse(t, p) ==
  responses' = [responses EXCEPT ![t] =
     [op |-> "build_graph", code |-> 201, sync_id |-> p.sync_id, status |-> "pending"]]

\* graph.py:305-307, then the 201 response (graph.py:47-50)
BuildFinish(t) ==
  LET p == procs[t] IN
  /\ p.pc = "build_docs"
  /\ p.i > Len(p.docs)
  /\ graph_sync' = update_graph_sync(graph_sync, p.sync_id, "completed", p.stats, None)
  /\ procs' = [procs EXCEPT ![t] = Idle]
  /\ BuildResponse(t, p)
  /\ build_runs' = Upd(build_runs, p.sync_id,
       [stats |-> p.stats, all_concepts |-> p.all_concepts, docs |-> p.docs,
        before |-> p.before,
        after |-> [nodes |-> DOMAIN neo4j.nodes, rels |-> DOMAIN neo4j.rels],
        escaped |-> FALSE])
  /\ UNCHANGED <<ingest_jobs, documents, neo4j, ingest_runs, qa_logs, demo_state>>

\* an exception that escapes the per-document handler, raised while the
\* documents are fetched (graph.py:213): caught at graph.py:309-311
BuildEscape(t) ==
  LET p == procs[t] IN
  /\ p.pc = "build_docs"
  /\ p.i = 1
  /\ graph_sync' = update_graph_sync(graph_sync, p.sync_id, "failed", None,
                                     [prefix |-> "exception", messages |-> <<>>])
  /\ procs' = [procs EXCEPT ![t] = Idle]
  /\ BuildResponse(t, p)
  /\ build_runs' = Upd(build_runs, p.sync_id,
       [stats |-> p.stats, all_concepts |-> p.all_concepts, docs |-> <<>>,
        before |-> p.before,
        after |-> [nodes |-> DOMAIN neo4j.nodes, rels |-> DOMAIN neo4j.rels],
        escaped |-> TRUE])
  /\ UNCHANGED <<ingest_jobs, documents, neo4j, ingest_runs, qa_logs, demo_state>>

(***************************************************************************)
(* Requests.                                                               *)
(***************************************************************************)
SeqsUpTo(S, n) == UNION {[1..k -> S] : k \in 0..n}

File(filename, text, raises) ==
  [filename |-> filename, text |-> text, raises |-> raises, size |-> Len(text)]

Url(url, text) == [url |-> url, text |-> text, size |-> Len(text)]

FileA == File("a.txt", TextA, FALSE)
FileB == File("b.txt", TextB, FALSE)
FileBad == File("bad.txt", TextBad, FALSE)
FileUnreadable == File("unreadable.txt", <<>>, TRUE)
FileUnnamed == File("", TextA, FALSE)
FileHuge == [File("huge.txt", TextB, FALSE) EXCEPT !.size = MAX_CONTENT_LENGTH + 1]
UrlA == Url("http://a", TextA)
UrlDown == Url("http://down", <<>>)

\* demo_state as the module of the demonstration application creates it
DemoInit ==
  [current_job_id |-> None, current_sync_id |-> None, graph_built |-> FALSE,
   uploaded_files |-> <<>>, processed_content |-> <<>>, dynamic_graph_data |-> None]

Init ==
  /\ ingest_jobs = <<>>
  /\ documents = <<>>
  /\ graph_sync = <<>>
  /\ neo4j = [nodes |-> EmptyFn, rels |-> EmptyFn]
  /\ procs = [t \in Threads |-> Idle]
  /\ responses = [t \in Threads |-> [op |-> "none", code |-> 0]]
  /\ ingest_runs = EmptyFn
  /\ build_runs = EmptyFn
  /\ qa_logs = <<>>
  /\ demo_state = DemoInit

\* a create-ingest-job request with at most n inputs
IngestRequest(t, fileOpts, urlOpts, n, maxJobs) ==
  /\ procs[t].pc = "idle"
  /\ Len(ingest_jobs) < maxJobs
  /\ \E files \in SeqsUpTo(fileOpts, n) :
       \E urls \in SeqsUpTo(urlOpts, n - Len(files)) :
          create_ingest_job(t, files, urls)

\* the steps of _process_ingestion_job
IngestStep(t) ==
  \/ IngestBegin(t)
  \/ IngestFile(t)
  \/ IngestFilesDone(t)
  \/ IngestUrl(t)
  \/ IngestUrlsDone(t)
  \/ IngestSave(t)
  \/ IngestFinish(t)
  \/ IngestEscape(t)

\* a start-graph-build request
BuildRequest(t) ==
  /\ procs[t].pc = "idle"
  /\ Len(graph_sync) < MaxSyncs
  /\ \E ingest_job_id \in 0..MaxJobs : build_graph(t, ingest_job_id)

\* the steps of _build_knowledge_graph
BuildStep(t) ==
  \/ BuildBegin(t)
  \/ BuildDocument(t)
  \/ BuildFinish(t)
  \/ BuildEscape(t)

(***************************************************************************)
(* Spec: ingestion jobs and graph builds, one request at a time.           *)
(***************************************************************************)
BuildFiles == {FileA, FileB, FileBad}
BuildUrls == {UrlDown}

Next ==
  \/ IngestRequest(1, BuildFiles, BuildUrls, MaxInputs, MaxJobs)
  \/ IngestStep(1)
  \/ BuildRequest(1)
  \/ BuildStep(1)

Spec == Init /\ [][Next]_vars

(***************************************************************************)
(* SpecBatch: one ingestion job with a larger batch of inputs.             *)
(***************************************************************************)
BatchInputs == 5
BatchFiles == {FileA, FileUnreadable, FileUnnamed, FileHuge}
BatchUrls == {UrlA, UrlDown}

NextBatch ==
  \/ IngestRequest(1, BatchFiles, BatchUrls, BatchInputs, 1)
  \/ IngestStep(1)

SpecBatch == Init /\ [][NextBatch]_vars

(***************************************************************************)
(* Subgraph retrieval: Neo4jService.get_subgraph and the /graph/subgraph   *)
(* route. Requests carry a valid token.                                    *)
(***************************************************************************)
\* what get_subgraph returns when the query raises (neo4j_service.py:252-254)
EmptySubgraph == [nodes |-> {}, edges |-> {}]

\* MATCH (c:Concept) WHERE c.id IN $concept_ids, or, without concept ids,
\* WHERE c.label CONTAINS $query OR c.canonical_key CONTAINS $query
SeedNodes(db, concept_ids, query) ==
  LET concepts == {k \in DOMAIN db.nodes : k[1] = "Concept"}
  IN IF concept_ids # {} THEN {k \in concepts : k[2] \in concept_ids}
     ELSE {k \in concepts : \/ Contains(db.nodes[k].label, query)
                            \/ Contains(db.nodes[k].canonical_key, query)}

\* one more relationship on each path of a set of paths: a path is where it is
\* at, the relationships it used (none is used twice) and the last of them;
\* dir "out" follows (c)-[r*]->(connected), "in" follows (c)<-[r*]-(connected)
ExtendPaths(db, paths, dir) ==
  {[at |-> IF dir = "out" THEN e[2] ELSE e[1], used |-> f.used \cup {e}, last |-> e] :
     <<f, e>> \in {<<f, e>> \in paths \X DOMAIN db.rels :
                     /\ e \notin f.used
                     /\ f.at = IF dir = "out" THEN e[1] ELSE e[2]}}

\* the rows (connected, r[-1]) of MATCH (c)-[r*1..n]-(connected) in one direction
RECURSIVE PathRows(_, _, _, _)
PathRows(db, paths, n, dir) ==
  IF n <= 0 \/ paths = {} THEN {}
  ELSE LET longer == ExtendPaths(db, paths, dir)
       IN {<<f.at, f.last>> : f \in longer} \cup PathRows(db, longer, n - 1, dir)

\* the CALL { ... UNION ... UNION ... } subquery for one seed c, followed by
\* WITH DISTINCT connected, rel; <<>> is the null rel of the seed's own row
SubgraphRows(db, seeds, max_hops) ==
  UNION {PathRows(db, {[at |-> c, used |-> {}, last |-> <<>>]}, max_hops, "out")
         \cup PathRows(db, {[at |-> c, used |-> {}, last |-> <<>>]}, max_hops, "in")
         \cup {<<c, <<>>>>} : c \in seeds}

\* LIMIT $max_nodes without ORDER BY: any max_nodes of the rows
LimitRows(rows, max_nodes) ==
  IF max_nodes >= Cardinality(rows) THEN {rows}
  ELSE {R \in SUBSET rows : Cardinality(R) = max_nodes}

\* RETURN connected, collect(DISTINCT rel) and the loop over the records
\* (neo4j_service.py:203-239): one node per record, the edges deduplicated by
\* start, end and type
RecordsToSubgraph(rows) ==
  [nodes |-> {r[1] : r \in rows},
   edges |-> {Triple(r[2]) : r \in {x \in rows : x[2] # <<>>}}]

\* Neo4jService.get_subgraph: the results the query can give. The query
\* raises, and the empty subgraph is returned, when neither concept ids nor a
\* query text is given (the third branch never binds rel), when the upper
\* bound *1..max_hops is negative and when LIMIT is negative. relation_types
\* is passed on but appears in no query.
Neo4jService_get_subgraph(db, concept_ids, query, max_hops, max_nodes, relation_types) ==
  IF \/ concept_ids = {} /\ query = <<>>
     \/ max_hops < 0
     \/ max_nodes < 0
  THEN {EmptySubgraph}
  ELSE {RecordsToSubgraph(R) :
          R \in LimitRows(SubgraphRows(db, SeedNodes(db, concept_ids, query), max_hops),
                          max_nodes)}

\* a route that passes max_hops on as it came
KeepMaxHops(max_hops) == max_hops

\* graph.py:118-119
ClampMaxHops(max_hops) == IF max_hops > 3 THEN 3 ELSE max_hops

\* graph.py:120-121
ClampMaxNodes(max_nodes) == IF max_nodes > 200 THEN 200 ELSE max_nodes

\* get_subgraph (graph.py:100-141); the answer keeps the request it answers
get_subgraph(t, req) ==
  /\ procs[t].pc = "idle"
  /\ \E subgraph \in Neo4jService_get_subgraph(neo4j, req.concept_ids, req.query,
                        ClampMaxHops(req.max_hops), ClampMaxNodes(req.max_nodes),
                        req.relation_types) :
       responses' = [responses EXCEPT ![t] =
          [op |-> "get_subgraph", code |-> 200, request |-> req,
           nodes |-> subgraph.nodes, edges |-> subgraph.edges, layout_seed |-> 42]]
  /\ UNCHANGED <<ingest_jobs, documents, graph_sync, neo4j, procs, ingest_runs, build_runs, qa_logs, demo_state>>

(***************************************************************************)
(* SpecQuery: a prefix of the chain corpus is ingested and built once;     *)
(* subgraph requests arrive between the other requests.                    *)
(***************************************************************************)
ChainNames == <<"1.txt", "2.txt", "3.txt", "4.txt">>

ChainFiles == [i \in 1..Len(ChainContents) |-> File(ChainNames[i], ChainContents[i].text, FALSE)]

ConceptIdOf(word) == _generate_concept_id(_canonicalize_concept(word))

\* concept_ids: absent, the first of the chain, the last of the chain, the
\* first together with an id (0) no concept has
QueryConceptIds == {{}, {ConceptIdOf(W_ant)}, {ConceptIdOf(W_eel)},
                    {ConceptIdOf(W_ant), 0}}

QueryTexts == {<<>>, W_ee}

QueryMaxHops == {-1, 0, 2, 3, 4}

QueryMaxNodes == {-1, 0, 2, 200, 201}

\* relation_types: absent, or the one type MENTIONS
QueryRelationTypes == {{}, {"MENTIONS"}}

\* concept ids and a query text come together in the requests for the first
\* of the chain only; an allow-list of relation types comes with the requests
\* for up to three hops and 200 nodes around given concept ids
SubgraphRequests ==
  {req \in [concept_ids : QueryConceptIds, query : QueryTexts, max_hops : QueryMaxHops,
            max_nodes : QueryMaxNodes, relation_types : QueryRelationTypes] :
     /\ \/ req.concept_ids = {}
        \/ req.query = <<>>
        \/ req.concept_ids = {ConceptIdOf(W_ant)}
     /\ \/ req.relation_types = {}
        \/ /\ req.concept_ids # {}
           /\ req.query = <<>>
           /\ req.max_hops = 3
           /\ req.max_nodes = 200}

ChainIngestRequest(t) ==
  /\ procs[t].pc = "idle"
  /\ ingest_jobs = <<>>
  /\ \E k \in 1..Len(ChainFiles) : create_ingest_job(t, SubSeq(ChainFiles, 1, k), <<>>)

ChainBuildRequest(t) ==
  /\ procs[t].pc = "idle"
  /\ graph_sync = <<>>
  /\ build_graph(t, 1)

SubgraphRequest(t) == \E req \in SubgraphRequests : get_subgraph(t, req)

NextQuery ==
  \/ ChainIngestRequest(1)
  \/ IngestBegin(1)
  \/ IngestFile(1)
  \/ IngestFilesDone(1)
  \/ IngestSave(1)
  \/ IngestFinish(1)
  \/ ChainBuildRequest(1)
  \/ BuildBegin(1)
  \/ BuildDocument(1)
  \/ BuildFinish(1)
  \/ SubgraphRequest(1)

SpecQuery == Init /\ [][NextQuery]_vars


(***************************************************************************)
(* Concept search: Neo4jService.search_concepts and the /graph/search      *)
(* route.                                                                  *)
(***************************************************************************)
\* the characters in code point order, the order of Cypher's ORDER BY on strings
CodeOrder == <<"\t", " ", "!", ".">> \o DigitChars \o UpperChars \o <<"_">> \o LowerChars

RECURSIVE StrLess(_, _)
StrLess(a, b) ==
  IF b = <<>> THEN FALSE
  ELSE IF a = <<>> THEN TRUE
  ELSE IF Head(a) = Head(b) THEN StrLess(Tail(a), Tail(b))
  ELSE IndexIn(Head(a), CodeOrder) < IndexIn(Head(b), CodeOrder)

\* the orders ORDER BY c.label can give a set of rows
OrderedByLabel(rows) ==
  {f \in [1..Cardinality(rows) -> rows] :
     /\ \A i, j \in DOMAIN f : i # j => f[i] # f[j]
     /\ \A i, j \in DOMAIN f : i < j => ~StrLess(f[j].label, f[i].label)}

\* Neo4jService.search_concepts: the results the query can give; a negative
\* LIMIT makes the query raise and [] is returned
Neo4jService_search_concepts(db, query, limit) ==
  IF limit < 0 THEN {<<>>}
  ELSE LET rows == {[id |-> k[2], label |-> db.nodes[k].label,
                     canonical_key |-> db.nodes[k].canonical_key] :
                      k \in {n \in DOMAIN db.nodes :
                               /\ n[1] = "Concept"
                               /\ \/ Contains(db.nodes[n].label, query)
                                  \/ Contains(db.nodes[n].canonical_key, query)}}
       IN {SubSeq(f, 1, Min(limit, Len(f))) : f \in OrderedByLabel(rows)}

\* a search that hands every query, also the empty one, to the graph store
SearchAnswersUnguarded(db, req) ==
  Neo4jService_search_concepts(db, Strip(req.q), Min(req.limit, 50))

\* search_concepts (graph.py:187-196): the concept lists it can answer with
SearchAnswers(db, req) ==
  LET query == Strip(req.q)
      limit == Min(req.limit, 50)
  IN IF query = <<>> THEN {<<>>}
     ELSE Neo4jService_search_concepts(db, query, limit)

\* search_concepts (graph.py:179-200); the answer keeps the request it answers
search_concepts(t, req) ==
  /\ procs[t].pc = "idle"
  /\ \E concepts \in SearchAnswers(neo4j, req) :
       responses' = [responses EXCEPT ![t] =
          [op |-> "search_concepts", code |-> 200, request |-> req,
           concepts |-> concepts]]
  /\ UNCHANGED <<ingest_jobs, documents, graph_sync, neo4j, procs, ingest_runs, build_runs, qa_logs, demo_state>>

(***************************************************************************)
(* SpecSearch: one job of a.txt and b.txt is ingested and built once;      *)
(* search requests arrive between the other requests.                      *)
(***************************************************************************)
SearchFiles == {FileA, FileB}

\* "", "  ", " \t ", "acme", "Acme", "ACME", "a"
SearchTexts == {<<>>, SP \o SP, SP \o <<"\t">> \o SP, W_acme, <<"A","c","m","e">>,
                <<"A","C","M","E">>, W_a}

SearchLimits == {-1, 0, 1, 20, 51}

SearchRequests == [q : SearchTexts, limit : SearchLimits]

SearchRequest(t) == \E req \in SearchRequests : search_concepts(t, req)

NextSearch ==
  \/ IngestRequest(1, SearchFiles, {}, MaxInputs, 1)
  \/ IngestBegin(1)
  \/ IngestFile(1)
  \/ IngestFilesDone(1)
  \/ IngestSave(1)
  \/ IngestFinish(1)
  \/ ChainBuildRequest(1)
  \/ BuildBegin(1)
  \/ BuildDocument(1)
  \/ BuildFinish(1)
  \/ SearchRequest(1)

SpecSearch == Init /\ [][NextSearch]_vars

(***************************************************************************)
(* Question answering: api/qa.py with NLPService.answer_question.          *)
(* Requests carry a valid token and the log collection accepts inserts.    *)
(***************************************************************************)
\* a list holding the elements of a set once each, in an order of no consequence
RECURSIVE SetToSeq(_)
SetToSeq(S) ==
  IF S = {} THEN <<>>
  ELSE LET x == CHOOSE y \in S : TRUE IN <<x>> \o SetToSeq(S \ {x})

\* the sets of at most n elements a list cut to its first n can hold, when the
\* order of the list is not determined
FirstN(S, n) ==
  IF Cardinality(S) <= n THEN {S}
  ELSE {T \in SUBSET S : Cardinality(T) = n}

IsLetter(c) == c \in Range(UpperChars) \cup Range(LowerChars)

\* the maximal runs of \w characters of s, in order
RECURSIVE WordRuns(_, _)
WordRuns(s, run) ==
  IF s = <<>> THEN (IF run = <<>> THEN <<>> ELSE <<run>>)
  ELSE IF IsWordChar(Head(s)) THEN WordRuns(Tail(s), Append(run, Head(s)))
  ELSE (IF run = <<>> THEN <<>> ELSE <<run>>) \o WordRuns(Tail(s), <<>>)

\* re.findall(r'\b[a-zA-Z]{3,}\b', s): the runs made of three letters or more
QuestionWords(s) ==
  SelectSeq(WordRuns(s, <<>>), LAMBDA w : Len(w) >= 3 /\ \A i \in 1..Len(w) : IsLetter(w[i]))

\* the node and edge dicts built from the records of get_subgraph
\* (neo4j_service.py:216-236); a Document node has no label
NodeDict(db, k) ==
  [id |-> k[2], type |-> k[1],
   label |-> IF k[1] = "Concept" THEN db.nodes[k].label ELSE <<>>]

EdgeDict(e) == [id |-> e, source |-> e[1][2], target |-> e[2][2], type |-> e[3]]

GraphData(db, subgraph) ==
  [nodes |-> {NodeDict(db, k) : k \in subgraph.nodes},
   edges |-> {EdgeDict(e) : e \in subgraph.edges}]

\* the ids search_concepts(word, limit=10) can find for the first five words
\* of the question; nothing is found when the graph store fails
FoundConceptIds(db, words, store_fails) ==
  IF store_fails THEN {{}}
  ELSE LET first == SubSeq(words, 1, Min(5, Len(words)))
           PerWord(w) == {{c.id : c \in Range(found)} :
                            found \in Neo4jService_search_concepts(db, w, 10)}
           all == UNION {PerWord(first[i]) : i \in DOMAIN first}
       IN {UNION Range(pick) :
             pick \in {f \in [DOMAIN first -> all] : \A i \in DOMAIN first : f[i] \in PerWord(first[i])}}

\* _get_relevant_graph_data (qa.py:178-213): the graph data it can return
_get_relevant_graph_data(db, question, max_hops, store_fails) ==
  LET words == QuestionWords(Lower(question))
  IN UNION {
       IF store_fails THEN {[nodes |-> {}, edges |-> {}]}
       ELSE IF ids = {}
       THEN {GraphData(db, g) :
               g \in Neo4jService_get_subgraph(db, {}, <<>>, 1, 50, {})}
       ELSE UNION {{GraphData(db, g) :
                      g \in Neo4jService_get_subgraph(db, concept_ids, <<>>, max_hops, 100, {})} :
                   concept_ids \in FirstN(ids, 10)} :
       ids \in FoundConceptIds(db, words, store_fails)}

\* the phrases _generate_answer looks for in the question (nlp_service.py:288-294)
DefinitionPhrases == {<<"w", "h", "a", "t", " ", "i", "s">>, <<"w", "h", "a", "t", " ", "a", "r", "e">>, <<"d", "e", "f", "i", "n", "e">>, <<"d", "e", "f", "i", "n", "i", "t", "i", "o", "n">>}

CountPhrases == {<<"h", "o", "w", " ", "m", "a", "n", "y">>, <<"c", "o", "u", "n", "t">>, <<"n", "u", "m", "b", "e", "r">>}

RelationshipPhrases == {<<"r", "e", "l", "a", "t", "e", "d">>, <<"c", "o", "n", "n", "e", "c", "t", "e", "d">>, <<"a", "s", "s", "o", "c", "i", "a", "t", "e", "d">>}

LocationPhrases == {<<"w", "h", "e", "r", "e">>, <<"l", "o", "c", "a", "t", "i", "o", "n">>}

ContainsAny(text, phrases) == \E ph \in phrases : Contains(text, ph)

\* the two fixed answers of answer_question, and the fixed answer and the
\* apology of ask_question
NotFoundAnswer ==
  [text |-> "I couldn't find any relevant information in the knowledge graph to answer your question."]

ErrorAnswer == [text |-> "I encountered an error while processing your question."]

\* the canonical keys of the entities and noun chunks of the question
\* (nlp_service.py:249-257)
QuestionConcepts(doc) ==
  {_canonicalize_concept(SpanText(doc, doc.ents[i])) : i \in DOMAIN doc.ents}
  \cup {_canonicalize_concept(SpanText(doc, doc.noun_chunks[i])) : i \in DOMAIN doc.noun_chunks}

\* nlp_service.py:263-267
MatchingNodes(graph_data, question_concepts) ==
  {node \in graph_data.nodes :
     LET node_canonical == _canonicalize_concept(node.label)
     IN \E concept \in question_concepts :
          Contains(node_canonical, concept) \/ Contains(concept, node_canonical)}

\* an answer with its evidence; the evidence lists keep their duplicates
Answered(kind, labels, evidence_nodes, evidence_edges) ==
  [answer |-> [kind |-> kind, labels |-> labels],
   node_ids |-> evidence_nodes, edge_ids |-> evidence_edges]

\* _answer_definition_question with matching_nodes[0] = primary
_answer_definition_question(primary, graph_data) ==
  LET out == SetToSeq({edge \in graph_data.edges :
                         /\ edge.source = primary.id
                         /\ \E n \in graph_data.nodes : n.id = edge.target})
  IN {Answered("definition", {primary.label},
               <<primary.id>> \o [i \in DOMAIN out |-> out[i].target],
               [i \in DOMAIN out |-> out[i].id])}

\* _answer_count_question
_answer_count_question(matching_nodes, graph_data) ==
  {Answered("count", {n.label : n \in matching_nodes},
            SetToSeq({n.id : n \in matching_nodes}), <<>>)}

\* _answer_general_question with matching_nodes[0] = primary: the loop takes
\* the edges in the order of the list and stops after three connected nodes,
\* so any three of the connected nodes, each with one of its edges
_answer_general_question(primary, graph_data) ==
  LET touching == {edge \in graph_data.edges :
                     /\ edge.source = primary.id \/ edge.target = primary.id
                     /\ LET other_id == IF edge.source = primary.id THEN edge.target
                                        ELSE edge.source
                        IN /\ other_id # primary.id
                           /\ \E n \in graph_data.nodes : n.id = other_id}
      OtherOf(edge) == IF edge.source = primary.id THEN edge.target ELSE edge.source
      others == {OtherOf(edge) : edge \in touching}
  IN UNION {
       {Answered("general", {primary.label},
                 <<primary.id>> \o SetToSeq(chosen),
                 SetToSeq({via[o].id : o \in chosen})) :
          via \in {f \in [chosen -> touching] : \A o \in chosen : OtherOf(f[o]) = o}} :
       chosen \in FirstN(others, 3)}

\* _answer_relationship_question
_answer_relationship_question(primary, matching_nodes, graph_data) ==
  IF Cardinality(matching_nodes) < 2 THEN _answer_general_question(primary, graph_data)
  ELSE LET ids == {n.id : n \in matching_nodes}
           among == {edge \in graph_data.edges : edge.source \in ids /\ edge.target \in ids}
       IN {Answered("relationship", {n.label : n \in matching_nodes},
                    SetToSeq(ids), SetToSeq({edge.id : edge \in among}))}

\* _answer_location_question: the node dicts carry no entity_label
_answer_location_question(matching_nodes, graph_data) ==
  {Answered("location", {}, SetToSeq({n.id : n \in matching_nodes}), <<>>)}

\* _generate_answer, for each node the list of matching nodes can start with
_generate_answer(question_text, matching_nodes, graph_data) ==
  UNION {
    IF ContainsAny(question_text, DefinitionPhrases)
    THEN _answer_definition_question(primary, graph_data)
    ELSE IF ContainsAny(question_text, CountPhrases)
    THEN _answer_count_question(matching_nodes, graph_data)
    ELSE IF ContainsAny(question_text, RelationshipPhrases)
    THEN _answer_relationship_question(primary, matching_nodes, graph_data)
    ELSE IF ContainsAny(question_text, LocationPhrases)
    THEN _answer_location_question(matching_nodes, graph_data)
    ELSE _answer_general_question(primary, graph_data) :
    primary \in matching_nodes}

\* NLPService.answer_question (nlp_service.py:242-281): the results it can
\* give; an exception of the pipeline ends in the apology
answer_question(question, graph_data) ==
  LET question_doc == NlpOf(Lower(question))
  IN IF question_doc.raises
     THEN {[answer |-> ErrorAnswer, node_ids |-> <<>>, edge_ids |-> <<>>]}
     ELSE LET matching_nodes == MatchingNodes(graph_data, QuestionConcepts(question_doc))
          IN IF matching_nodes = {}
             THEN {[answer |-> NotFoundAnswer, node_ids |-> <<>>, edge_ids |-> <<>>]}
             ELSE _generate_answer(Lower(question_doc.text), matching_nodes, graph_data)

\* Neo4jService.get_concept_neighbors with hops = 1: the Concept nodes next to
\* the concept, in either direction, and the relationships between the concept
\* and each of them; only Concept nodes are matched as neighbours
get_concept_neighbors(db, concept_id, store_fails) ==
  LET c == <<"Concept", concept_id>>
      IsNeighbour(k) == k \in DOMAIN db.nodes /\ k[1] = "Concept"
      rels == IF store_fails \/ c \notin DOMAIN db.nodes THEN {}
              ELSE {e \in DOMAIN db.rels : \/ e[1] = c /\ IsNeighbour(e[2])
                                           \/ e[2] = c /\ IsNeighbour(e[1])}
  IN [nodes |-> {IF e[1] = c THEN e[2] ELSE e[1] : e \in rels},
      edges |-> {[source |-> e[1][2], target |-> e[2][2], type |-> e[3]] : e \in rels}]

\* _get_document_ids_from_evidence (qa.py:215-239): the lists it can return;
\* the first ten evidence ids are looked up, at most twenty documents returned
_get_document_ids_from_evidence(db, evidence_node_ids, store_fails) ==
  IF evidence_node_ids = <<>> THEN {<<>>}
  ELSE UNION {
         LET document_ids ==
               UNION {{IF edge.target = evidence_node_ids[i] THEN edge.source ELSE edge.target :
                         edge \in {e \in get_concept_neighbors(db, evidence_node_ids[i],
                                                               store_fails).edges :
                                     e.type = "MENTIONS"}} : i \in used}
         IN {SetToSeq(kept) : kept \in FirstN(document_ids, 20)} :
         used \in FirstN(DOMAIN evidence_node_ids, 10)}

\* an insert that never reaches the collection
log_qa_interaction_lost(logs, question, params, answer_text, evidence, status, error) == logs

\* MongoDBService.log_qa_interaction
log_qa_interaction(logs, question, params, answer_text, evidence, status, error) ==
  Append(logs, [question |-> question, params |-> params, answer_text |-> answer_text,
                evidence |-> evidence, status |-> status, error |-> error])

NoEvidence == [node_ids |-> <<>>, edge_ids |-> <<>>, document_ids |-> <<>>]

\* ask_question (qa.py:17-140). A request is [has_question, question,
\* max_hops, return_subgraph, store_fails]: store_fails tells whether the graph
\* store raises on every call of this request. The except branch of
\* qa.py:113-136 is not here: _get_relevant_graph_data, answer_question,
\* _get_document_ids_from_evidence and _log_qa_interaction each catch every
\* exception themselves.
ask_question(t, req) ==
  LET question == Strip(req.question)
      max_hops == Min(req.max_hops, 3)
      params == [max_hops |-> max_hops, return_subgraph |-> req.return_subgraph]
      Answer(code, answer, evidence, error, subgraph) ==
        responses' = [responses EXCEPT ![t] =
          [op |-> "ask_question", code |-> code, request |-> req, answer |-> answer,
           evidence |-> evidence, error |-> error, subgraph |-> subgraph]]
  IN
  /\ procs[t].pc = "idle"
  /\ IF ~req.has_question \/ question = <<>>
     THEN /\ Answer(400, None, NoEvidence, TRUE, None)
          /\ UNCHANGED qa_logs
     ELSE \E graph_data \in _get_relevant_graph_data(neo4j, question, max_hops, req.store_fails) :
            IF graph_data.nodes = {}
            THEN /\ qa_logs' = log_qa_interaction(qa_logs, question, params, NotFoundAnswer,
                                                  NoEvidence, "ok", None)
                 /\ Answer(200, NotFoundAnswer, NoEvidence, FALSE, None)
            ELSE \E result \in answer_question(question, graph_data) :
                 \E document_ids \in _get_document_ids_from_evidence(neo4j, result.node_ids,
                                                                     req.store_fails) :
                   LET evidence == [node_ids |-> result.node_ids,
                                    edge_ids |-> result.edge_ids,
                                    document_ids |-> document_ids]
                       subgraph ==
                         IF req.return_subgraph /\ result.node_ids # <<>>
                         THEN [nodes |-> {n \in graph_data.nodes : n.id \in Range(result.node_ids)},
                               edges |-> {e \in graph_data.edges : e.id \in Range(result.edge_ids)}]
                         ELSE None
                   IN /\ qa_logs' = log_qa_interaction(qa_logs, question, params, result.answer,
                                                       evidence, "ok", None)
                      /\ Answer(200, result.answer, evidence, FALSE, subgraph)
  /\ UNCHANGED <<ingest_jobs, documents, graph_sync, neo4j, procs, ingest_runs, build_runs,
               demo_state>>

(***************************************************************************)
(* SpecQA: the document "hub bee" is ingested and built once; questions    *)
(* arrive between the other requests.                                      *)
(* SpecFan: ten documents about one concept are ingested and built once;   *)
(* one question is asked at some point.                                    *)
(***************************************************************************)
MaxQaLogs == 2

FanNames == <<"f0.txt", "f1.txt", "f2.txt", "f3.txt", "f4.txt", "f5.txt", "f6.txt",
              "f7.txt", "f8.txt", "f9.txt">>

FanFiles == [i \in 1..Len(FanContents) |-> File(FanNames[i], FanContents[i].text, FALSE)]

\* the first k documents of the corpus are uploaded
FanIngestRequest(t, k) ==
  /\ procs[t].pc = "idle"
  /\ ingest_jobs = <<>>
  /\ create_ingest_job(t, SubSeq(FanFiles, 1, k), <<>>)

\* the questions: one that names no question, a blank one, and the analysed
\* ones; max_hops 2 is the default, 5 is cut to 3; the graph store fails
\* during two of them
AskRequests ==
  {[has_question |-> FALSE, question |-> <<>>, max_hops |-> 2, return_subgraph |-> FALSE,
    store_fails |-> FALSE]}
  \cup [has_question : {TRUE}, question : {SP \o SP} \cup {c.text : c \in QuestionContents},
        max_hops : {2}, return_subgraph : {FALSE}, store_fails : {FALSE}]
  \cup [has_question : {TRUE}, question : {QuestionCount.text, QuestionRaising.text},
        max_hops : {2}, return_subgraph : {FALSE}, store_fails : {TRUE}]
  \cup [has_question : {TRUE}, question : {QuestionDefinition.text},
        max_hops : {5}, return_subgraph : {TRUE}, store_fails : {FALSE}]

\* the questions asked of the larger graph
FanAskRequests ==
  [has_question : {TRUE},
   question : {QuestionCount.text, QuestionDefinition.text, QuestionGeneral.text,
               QuestionRelated.text, QuestionWhere.text},
   max_hops : {2}, return_subgraph : {FALSE}, store_fails : {FALSE}]

AskRequest(t, requests, maxLogs) ==
  /\ Len(qa_logs) < maxLogs
  /\ \E req \in requests : ask_question(t, req)

NextQA ==
  \/ FanIngestRequest(1, 1)
  \/ IngestBegin(1)
  \/ IngestFile(1)
  \/ IngestFilesDone(1)
  \/ IngestSave(1)
  \/ IngestFinish(1)
  \/ ChainBuildRequest(1)
  \/ BuildBegin(1)
  \/ BuildDocument(1)
  \/ BuildFinish(1)
  \/ AskRequest(1, AskRequests, MaxQaLogs)

SpecQA == Init /\ [][NextQA]_vars

NextFan ==
  \/ FanIngestRequest(1, Len(FanFiles))
  \/ IngestBegin(1)
  \/ IngestFile(1)
  \/ IngestFilesDone(1)
  \/ IngestSave(1)
  \/ IngestFinish(1)
  \/ ChainBuildRequest(1)
  \/ BuildBegin(1)
  \/ BuildDocument(1)
  \/ BuildFinish(1)
  \/ AskRequest(1, FanAskRequests, 1)

SpecFan == Init /\ [][NextFan]_vars

(***************************************************************************)
(* The demonstration application (demo_app.py): one process, its state in  *)
(* the dict demo_state.                                                    *)
(***************************************************************************)
\* the character classes of the patterns of extract_concepts_from_text
InClass(c, class) ==
  CASE class = "upper" -> c \in Range(UpperChars)
    [] class = "lower" -> c \in Range(LowerChars)
    [] class = "letter" -> IsLetter(c)
    [] class = "digit" -> IsDigit(c)
    [] class = "space" -> IsSpace(c)

\* the position after the longest run of characters of the class that starts
\* at position i (i itself when there is none): a greedy [class]*
RunEnd(s, i, class) ==
  CHOOSE j \in i..(Len(s) + 1) :
    /\ \A k \in i..(j - 1) : InClass(s[k], class)
    /\ j = Len(s) + 1 \/ ~InClass(s[j], class)

\* \b between positions i - 1 and i
Boundary(s, i) ==
  (i > 1 /\ IsWordChar(s[i - 1])) # (i <= Len(s) /\ IsWordChar(s[i]))

\* the largest of the candidate ends at which \b holds, 0 when there is none:
\* what backtracking from the greedy match arrives at
LastBoundary(s, ends) ==
  LET ok == {k \in DOMAIN ends : Boundary(s, ends[k])}
  IN IF ok = {} THEN 0 ELSE ends[CHOOSE k \in ok : \A m \in ok : m <= k]

\* the end of the word of the next group (\s+[class]+) whose space run ends
\* at w, 0 when no word starts there
GroupWord(s, w, first, class) ==
  IF w <= Len(s) /\ InClass(s[w], first) THEN RunEnd(s, w + 1, class) ELSE 0

\* the ends reached by up to n more groups (\s+[class]+) after position e,
\* starting with e itself; first is the class the group's word starts with,
\* w the end of the space run after e and l the end of the word after it
RECURSIVE GroupEnds(_, _, _, _, _)
GroupWith(s, e, first, class, n, w, l) ==
  IF w > e /\ l > w /\ (first = class \/ l > w + 1)
  THEN <<e>> \o GroupEnds(s, l, first, class, n - 1)
  ELSE <<e>>

GroupAfter(s, e, first, class, n, w) ==
  GroupWith(s, e, first, class, n, w, GroupWord(s, w, first, class))

GroupEnds(s, e, first, class, n) ==
  IF n = 0 THEN <<e>> ELSE GroupAfter(s, e, first, class, n, RunEnd(s, e, "space"))

\* r'\b[A-Z][a-z]+(?:\s+[A-Z][a-z]+)*\b' at position i: the position after
\* the match, 0 when there is no match
EntityEnd(s, i) ==
  IF i <= Len(s) /\ Boundary(s, i) /\ InClass(s[i], "upper") /\ RunEnd(s, i + 1, "lower") > i + 1
  THEN LastBoundary(s, GroupEnds(s, RunEnd(s, i + 1, "lower"), "upper", "lower", Len(s)))
  ELSE 0

\* r'\b[a-zA-Z]+[-][a-zA-Z]+\b|\b[a-zA-Z]+[0-9]+\b|\b[A-Z]{2,}\b' at position i
TechnicalEnd(s, i) ==
  IF i > Len(s) \/ ~Boundary(s, i) \/ ~IsLetter(s[i]) THEN 0
  ELSE LET l == RunEnd(s, i, "letter")
           h == IF l <= Len(s) /\ s[l] = "-" THEN RunEnd(s, l + 1, "letter") ELSE 0
           d == RunEnd(s, l, "digit")
           u == RunEnd(s, i, "upper")
       IN IF h > l + 1 /\ Boundary(s, h) THEN h
          ELSE IF d > l /\ Boundary(s, d) THEN d
          ELSE IF u >= i + 2 /\ Boundary(s, u) THEN u
          ELSE 0

\* re.findall for a pattern without groups: the matches from position i on,
\* left to right and not overlapping; e is the end of the match at i
RECURSIVE FindAll(_, _, _)
FindAllAfter(s, i, pattern, e) ==
  IF e > i THEN <<SubSeq(s, i, e - 1)>> \o FindAll(s, e, pattern)
  ELSE FindAll(s, i + 1, pattern)

FindAll(s, i, pattern) ==
  IF i > Len(s) THEN <<>>
  ELSE FindAllAfter(s, i, pattern,
                    IF pattern = "entity" THEN EntityEnd(s, i) ELSE TechnicalEnd(s, i))

Adjectives ==
  <<<<"i","m","p","o","r","t","a","n","t">>, <<"k","e","y">>, <<"m","a","i","n">>,
    <<"p","r","i","m","a","r","y">>, <<"e","s","s","e","n","t","i","a","l">>,
    <<"c","r","i","t","i","c","a","l">>, <<"m","a","j","o","r">>,
    <<"s","i","g","n","i","f","i","c","a","n","t">>>>

Determiners == <<<<"t","h","e">>, <<"a">>, <<"a","n">>>>

\* s holds the literal p at position i
HasAt(s, i, p) == i + Len(p) - 1 <= Len(s) /\ SubSeq(s, i, i + Len(p) - 1) = p

\* the positions after successive greedy runs [class]+ of the classes from
\* position i on, starting with i itself; it stops at the first empty run
RECURSIVE Runs(_, _, _)
RunsAfter(s, i, classes, j) ==
  IF j > i THEN <<i>> \o Runs(s, j, Tail(classes)) ELSE <<i>>

Runs(s, i, classes) ==
  IF classes = <<>> THEN <<i>> ELSE RunsAfter(s, i, classes, RunEnd(s, i, Head(classes)))

NoPhrase == [adj |-> <<>>, noun |-> <<>>, end |-> 0]

\* r'\b(important|...|significant)\s+([a-z]+(?:\s+[a-z]+){0,2})\b' at
\* position i with the adjective adj: [adj, noun, end], end 0 when no match;
\* r holds the positions after the adjective, the spaces and the first word,
\* e the end of the match
AdjNounMatch(s, adj, r, e) ==
  IF e > 0 THEN [adj |-> adj, noun |-> SubSeq(s, r[2], e - 1), end |-> e]
  ELSE [adj |-> adj, noun |-> <<>>, end |-> 0]

AdjNounRuns(s, i, adj, r) ==
  IF HasAt(s, i, adj) /\ Len(r) = 3
  THEN AdjNounMatch(s, adj, r, LastBoundary(s, GroupEnds(s, r[3], "lower", "lower", 2)))
  ELSE [adj |-> adj, noun |-> <<>>, end |-> 0]

AdjNounWith(s, i, k) ==
  AdjNounRuns(s, i, Adjectives[k], Runs(s, i + Len(Adjectives[k]), <<"space", "lower">>))

\* r'\b(?:the|a|an)\s+([a-z]+)\s+([a-z]+(?:\s+[a-z]+){0,1})\b' at position i
\* with the k-th determiner; r holds the positions after the determiner, the
\* spaces, the first word, the spaces and the second word
DetAdjNounMatch(s, r, e) ==
  IF e > 0 THEN [adj |-> SubSeq(s, r[2], r[3] - 1), noun |-> SubSeq(s, r[4], e - 1), end |-> e]
  ELSE NoPhrase

DetAdjNounRuns(s, i, k, r) ==
  IF HasAt(s, i, Determiners[k]) /\ Len(r) = 5
  THEN DetAdjNounMatch(s, r, LastBoundary(s, GroupEnds(s, r[5], "lower", "lower", 1)))
  ELSE NoPhrase

DetAdjNounWith(s, i, k) ==
  DetAdjNounRuns(s, i, k,
                 Runs(s, i + Len(Determiners[k]), <<"space", "lower", "space", "lower">>))

\* the match at position i: the first of the alternatives k..n that matches
RECURSIVE PhraseFrom(_, _, _, _, _)
PhraseOr(s, i, pattern, k, n, m) ==
  IF m.end > 0 THEN m ELSE PhraseFrom(s, i, pattern, k + 1, n)

PhraseFrom(s, i, pattern, k, n) ==
  IF k > n THEN NoPhrase
  ELSE PhraseOr(s, i, pattern, k, n,
                IF pattern = "adj_noun" THEN AdjNounWith(s, i, k) ELSE DetAdjNounWith(s, i, k))

PhraseAt(s, i, pattern) ==
  IF ~Boundary(s, i) THEN NoPhrase
  ELSE PhraseFrom(s, i, pattern, 1,
                  IF pattern = "adj_noun" THEN Len(Adjectives) ELSE Len(Determiners))

\* re.findall for the two patterns with groups: the (adj, noun) pairs; m is
\* the match at position i
RECURSIVE FindPhrases(_, _, _)
FindPhrasesAfter(s, i, pattern, m) ==
  IF m.end > i THEN <<[adj |-> m.adj, noun |-> m.noun]>> \o FindPhrases(s, m.end, pattern)
  ELSE FindPhrases(s, i + 1, pattern)

FindPhrases(s, i, pattern) ==
  IF i > Len(s) THEN <<>> ELSE FindPhrasesAfter(s, i, pattern, PhraseAt(s, i, pattern))

\* re.sub(r'[^\w\s\-\.]', ' ', text)
CleanText(text) ==
  [i \in 1..Len(text) |->
     IF IsWordChar(text[i]) \/ IsSpace(text[i]) \/ text[i] \in {"-", "."} THEN text[i] ELSE " "]

\* str.split('.')
RECURSIVE SplitDots(_, _)
SplitDots(s, part) ==
  IF s = <<>> THEN <<part>>
  ELSE IF Head(s) = "." THEN <<part>> \o SplitDots(Tail(s), <<>>)
  ELSE SplitDots(Tail(s), Append(part, Head(s)))

\* the sentences kept: stripped, longer than ten characters
Sentences(text) ==
  LET parts == SplitDots(CleanText(text), <<>>)
  IN SelectSeq([i \in DOMAIN parts |-> Strip(parts[i])], LAMBDA p : Len(p) > 10)

UpperChar(c) == IF c \in Range(LowerChars) THEN UpperChars[IndexIn(c, LowerChars)] ELSE c

\* str.title(): a letter after a non-letter is upper case, every other lower
Title(s) ==
  [i \in 1..Len(s) |->
     IF i = 1 \/ ~IsLetter(s[i - 1]) THEN UpperChar(s[i]) ELSE LowerChar(s[i])]

\* re.findall(r'\b[a-zA-Z]{4,}\b', s): the runs of word characters made of
\* four letters or more
LongWords(s) ==
  SelectSeq(WordRuns(s, <<>>), LAMBDA w : Len(w) >= 4 /\ \A i \in 1..Len(w) : IsLetter(w[i]))

StopWords ==
  {<<"t","h","a","t">>, <<"t","h","i","s">>, <<"w","i","t","h">>, <<"h","a","v","e">>,
   <<"w","i","l","l">>, <<"b","e","e","n">>, <<"f","r","o","m">>, <<"t","h","e","y">>,
   <<"k","n","o","w">>, <<"w","a","n","t">>, <<"g","o","o","d">>, <<"m","u","c","h">>,
   <<"s","o","m","e">>, <<"t","i","m","e">>, <<"v","e","r","y">>, <<"w","h","e","n">>,
   <<"c","o","m","e">>, <<"h","e","r","e">>, <<"j","u","s","t">>, <<"l","i","k","e">>,
   <<"l","o","n","g">>, <<"m","a","k","e">>, <<"m","a","n","y">>, <<"o","v","e","r">>,
   <<"s","u","c","h">>, <<"t","a","k","e">>, <<"t","h","a","n">>, <<"t","h","e","m">>,
   <<"w","e","l","l">>, <<"w","e","r","e">>}

\* the number of times w occurs in the list
CountOf(ws, w) == Cardinality({i \in DOMAIN ws : ws[i] = w})

\* Counter(ws).most_common(n): the distinct words by falling count, words of
\* equal count in the order of their first occurrence
RECURSIVE ByCount(_, _)
ByCount(ws, firsts) ==
  IF firsts = {} THEN <<>>
  ELSE LET best == CHOOSE i \in firsts :
                     \A j \in firsts :
                       \/ CountOf(ws, ws[i]) > CountOf(ws, ws[j])
                       \/ CountOf(ws, ws[i]) = CountOf(ws, ws[j]) /\ i <= j
       IN <<ws[best]>> \o ByCount(ws, firsts \ {best})

most_common(ws, n) ==
  LET firsts == {i \in DOMAIN ws : \A j \in 1..(i - 1) : ws[j] # ws[i]}
      sorted == ByCount(ws, firsts)
  IN SubSeq(sorted, 1, Min(n, Len(sorted)))

\* the concepts appended for a list of candidates: a candidate is taken when
\* its canonical key has not been seen
RECURSIVE AppendUnseen(_, _)
AppendUnseen(concepts, candidates) ==
  IF candidates = <<>> THEN concepts
  ELSE LET c == Head(candidates)
           seen_concepts == {concepts[i].canonical_key : i \in DOMAIN concepts}
       IN AppendUnseen(
            IF c.canonical_key \in seen_concepts THEN concepts
            ELSE Append(concepts, [id |-> Len(concepts) + 1, label |-> c.label,
                                   type |-> c.type, canonical_key |-> c.canonical_key]),
            Tail(candidates))

Flatten(seqs) == 
  LET F[i \in 0..Len(seqs)] == IF i = 0 THEN <<>> ELSE F[i - 1] \o seqs[i]
  IN F[Len(seqs)]

\* the noun phrases of one sentence, in the order the loop meets them
PhraseConcepts(matches) ==
  [i \in DOMAIN matches |->
     [label |-> Title(matches[i].adj \o SP \o matches[i].noun), type |-> "noun_phrase",
      canonical_key |-> Lower(matches[i].adj \o SP \o matches[i].noun)]]

SentencePhrases(sentence) ==
  PhraseConcepts(SelectSeq(FindPhrases(Lower(sentence), 1, "adj_noun"),
                           LAMBDA m : Len(m.noun) > 3))
  \o PhraseConcepts(SelectSeq(FindPhrases(Lower(sentence), 1, "det_adj_noun"),
                              LAMBDA m : Len(m.adj) > 3 /\ Len(m.noun) > 3))

\* the candidates of the four passes of extract_concepts_from_text
EntityCandidates(entities) ==
  [i \in DOMAIN entities |->
     [label |-> entities[i], type |-> "entity", canonical_key |-> Lower(entities[i])]]

KeywordCandidates(meaningful_words) ==
  LET frequent == SelectSeq(most_common(meaningful_words, 10),
                            LAMBDA w : CountOf(meaningful_words, w) > 1)
  IN [i \in DOMAIN frequent |->
        [label |-> Title(frequent[i]), type |-> "keyword", canonical_key |-> Lower(frequent[i])]]

PhraseCandidates(sentences) ==
  Flatten([i \in 1..Min(15, Len(sentences)) |-> SentencePhrases(sentences[i])])

TechnicalCandidates(technical_terms) ==
  [i \in DOMAIN technical_terms |->
     [label |-> technical_terms[i], type |-> "technical",
      canonical_key |-> Lower(technical_terms[i])]]

\* list[:n]
Capped(list, n) == SubSeq(list, 1, Min(n, Len(list)))

\* extract_concepts_from_text (demo_app.py:30-118)
extract_concepts_from_text(text) ==
  Capped(AppendUnseen(<<>>,
           EntityCandidates(SelectSeq(FindAll(text, 1, "entity"), LAMBDA e : Len(e) > 3))
           \o KeywordCandidates(SelectSeq(LongWords(Lower(text)),
                                          LAMBDA w : w \notin StopWords /\ Len(w) > 4))
           \o PhraseCandidates(Sentences(text))
           \o TechnicalCandidates(SelectSeq(FindAll(text, 1, "technical"),
                                            LAMBDA t : Len(t) > 2))),
         20)

\* create_relationships (demo_app.py:120-141): concepts at most three places
\* apart are connected, up to twenty edges
create_relationships(concepts) ==
  LET pairs == {p \in (DOMAIN concepts) \X (DOMAIN concepts) : p[1] < p[2] /\ p[2] - p[1] <= 3}
      Before(p, q) == p[1] < q[1] \/ (p[1] = q[1] /\ p[2] < q[2])
      Rank(p) == Cardinality({q \in pairs : Before(q, p)}) + 1
      kept == {p \in pairs : Rank(p) <= 20}
  IN [n \in 1..Cardinality(kept) |->
        LET p == CHOOSE q \in kept : Rank(q) = n
        IN [id |-> n, source |-> concepts[p[1]].id, target |-> concepts[p[2]].id,
            type |-> IF concepts[p[1]].type = concepts[p[2]].type THEN "RELATED_TO"
                     ELSE "MENTIONS"]]

\* the decimal digits of a natural number, as f"{n}" prints it
RECURSIVE Str(_)
Str(n) == IF n < 10 THEN <<DigitChars[n + 1]>> ELSE Str(n \div 10) \o <<DigitChars[(n % 10) + 1]>>

\* question_patterns of analyze_question, in the order of the dict
question_patterns ==
  <<
    [qtype |-> "count",
     patterns |-> {<<"h","o","w"," ","m","a","n","y">>,
                   <<"c","o","u","n","t">>,
                   <<"n","u","m","b","e","r"," ","o","f">>,
                   <<"t","o","t","a","l">>,
                   <<"a","m","o","u","n","t">>}],
    [qtype |-> "what",
     patterns |-> {<<"w","h","a","t"," ","i","s">>,
                   <<"w","h","a","t"," ","a","r","e">>,
                   <<"w","h","a","t"," ","d","o","e","s">>,
                   <<"d","e","s","c","r","i","b","e">>,
                   <<"e","x","p","l","a","i","n">>,
                   <<"t","e","l","l"," ","m","e"," ","a","b","o","u","t">>,
                   <<"d","e","f","i","n","e">>}],
    [qtype |-> "where",
     patterns |-> {<<"w","h","e","r","e">>,
                   <<"l","o","c","a","t","i","o","n">>,
                   <<"p","l","a","c","e">>}],
    [qtype |-> "when",
     patterns |-> {<<"w","h","e","n">>,
                   <<"t","i","m","e">>,
                   <<"d","a","t","e">>,
                   <<"p","e","r","i","o","d">>}],
    [qtype |-> "why",
     patterns |-> {<<"w","h","y">>,
                   <<"r","e","a","s","o","n">>,
                   <<"b","e","c","a","u","s","e">>,
                   <<"c","a","u","s","e">>,
                   <<"p","u","r","p","o","s","e">>}],
    [qtype |-> "how",
     patterns |-> {<<"h","o","w"," ","d","o","e","s">>,
                   <<"h","o","w"," ","d","o">>,
                   <<"h","o","w"," ","t","o">>,
                   <<"m","e","t","h","o","d">>,
                   <<"w","a","y">>,
                   <<"p","r","o","c","e","s","s">>}],
    [qtype |-> "relationship",
     patterns |-> {<<"r","e","l","a","t","i","o","n","s","h","i","p">>,
                   <<"c","o","n","n","e","c","t">>,
                   <<"r","e","l","a","t","e","d">>,
                   <<"l","i","n","k">>,
                   <<"b","e","t","w","e","e","n">>,
                   <<"a","s","s","o","c","i","a","t","i","o","n">>,
                   <<"i","n","t","e","r","a","c","t">>}],
    [qtype |-> "comparison",
     patterns |-> {<<"c","o","m","p","a","r","e">>,
                   <<"d","i","f","f","e","r","e","n","c","e">>,
                   <<"s","i","m","i","l","a","r">>,
                   <<"v","e","r","s","u","s">>,
                   <<"v","s">>,
                   <<"b","e","t","t","e","r">>,
                   <<"w","o","r","s","e">>}],
    [qtype |-> "summary",
     patterns |-> {<<"s","u","m","m","a","r","y">>,
                   <<"o","v","e","r","v","i","e","w">>,
                   <<"m","a","i","n">>,
                   <<"k","e","y">>,
                   <<"i","m","p","o","r","t","a","n","t">>,
                   <<"p","r","i","m","a","r","y">>}],
    [qtype |-> "list",
     patterns |-> {<<"l","i","s","t">>,
                   <<"s","h","o","w"," ","m","e">>,
                   <<"a","l","l">>,
                   <<"e","v","e","r","y">>}],
    [qtype |-> "meaning",
     patterns |-> {<<"m","e","a","n">>,
                   <<"m","e","a","n","i","n","g">>,
                   <<"s","i","g","n","i","f","i","c","a","n","c","e">>,
                   <<"r","e","p","r","e","s","e","n","t">>,
                   <<"s","t","a","n","d"," ","f","o","r">>}],
    [qtype |-> "characteristic",
     patterns |-> {<<"c","h","a","r","a","c","t","e","r","i","s","t","i","c">>,
                   <<"f","e","a","t","u","r","e">>,
                   <<"p","r","o","p","e","r","t","y">>,
                   <<"a","t","t","r","i","b","u","t","e">>,
                   <<"q","u","a","l","i","t","y">>}]>>

BuildFirstAnswer ==
  <<"P","l","e","a","s","e"," ","b","u","i","l","d"," ","t","h","e"," ","k","n","o","w","l","e",
    "d","g","e"," ","g","r","a","p","h"," ","f","i","r","s","t"," ","b","y"," ","u","p","l","o",
    "a","d","i","n","g"," ","d","o","c","u","m","e","n","t","s"," ","a","n","d"," ","c","r","e",
    "a","t","i","n","g"," ","t","h","e"," ","g","r","a","p","h",".">>

EnterQuestionAnswer ==
  <<"P","l","e","a","s","e"," ","e","n","t","e","r"," ","a"," ","q","u","e","s","t","i","o","n",
    ".">>

NoConceptsAnswer ==
  <<"N","o"," ","c","o","n","c","e","p","t","s"," ","f","o","u","n","d"," ","i","n"," ","y","o",
    "u","r"," ","u","p","l","o","a","d","e","d"," ","d","o","c","u","m","e","n","t","s","."," ",
    "P","l","e","a","s","e"," ","u","p","l","o","a","d"," ","a","n","d"," ","p","r","o","c","e",
    "s","s"," ","d","o","c","u","m","e","n","t","s"," ","f","i","r","s","t",".">>

DemoErrorAnswer ==
  <<"I"," ","e","n","c","o","u","n","t","e","r","e","d"," ","a","n"," ","e","r","r","o","r"," ",
    "w","h","i","l","e"," ","p","r","o","c","e","s","s","i","n","g"," ","y","o","u","r"," ","q",
    "u","e","s","t","i","o","n","."," ","P","l","e","a","s","e"," ","t","r","y"," ","r","e","p",
    "h","r","a","s","i","n","g"," ","y","o","u","r"," ","q","u","e","s","t","i","o","n",".">>
HowManyConcepts == <<"h","o","w"," ","m","a","n","y"," ","c","o","n","c","e","p","t","s"," ","a","r","e"," ","t","h","e","r","e","?">>

HowManyNodes == <<"H","o","w"," ","m","a","n","y"," ","N","O","D","E","S","?">>

HowManyRelationships == <<"h","o","w"," ","m","a","n","y"," ","r","e","l","a","t","i","o","n","s","h","i","p","s","?">>

NumberOfFiles == <<"n","u","m","b","e","r"," ","o","f"," ","f","i","l","e","s">>

HowMany == <<" ","h","o","w"," ","m","a","n","y"," ">>

TotalConnections == <<"t","o","t","a","l"," ","c","o","n","n","e","c","t","i","o","n","s">>

DemoTextA == <<"A","c","m","e"," ","C","o","r","p">>

DemoTextB == <<"A","l","p","h","a"," ","B","e","t","a","."," ","G","a","m","m","a">>

DemoTextC ==
  <<"t","h","e"," ","l","a","r","g","e"," ","g","r","a","p","h"," ","h","o","l","d","s"," ","n",
    "o","d","e","s","."," ","N","A","S","A"," ","k","e","y","-","v","a","l","u","e"," ","d","a",
    "t","a","2"," ","g","r","a","p","h">>

DemoTextD == <<"t","i","n","y">>

S_contains ==
  <<"Y","o","u","r"," ","k","n","o","w","l","e","d","g","e"," ","g","r","a","p","h"," ","c","o",
    "n","t","a","i","n","s"," ">>

S_concepts_extracted ==
  <<" ","c","o","n","c","e","p","t","s"," ","e","x","t","r","a","c","t","e","d"," ","f","r","o",
    "m"," ","y","o","u","r"," ","d","o","c","u","m","e","n","t","s",".">>

S_there_are ==
  <<"T","h","e","r","e"," ","a","r","e"," ">>

S_relationships_between ==
  <<" ","r","e","l","a","t","i","o","n","s","h","i","p","s"," ","b","e","t","w","e","e","n"," ",
    "c","o","n","c","e","p","t","s"," ","i","n"," ","y","o","u","r"," ","k","n","o","w","l","e",
    "d","g","e"," ","g","r","a","p","h",".">>

S_you_have ==
  <<"Y","o","u"," ","h","a","v","e"," ","u","p","l","o","a","d","e","d"," ","a","n","d"," ","p",
    "r","o","c","e","s","s","e","d"," ">>

S_documents ==
  <<" ","d","o","c","u","m","e","n","t","s",".">>

S_concepts_and ==
  <<" ","c","o","n","c","e","p","t","s"," ","a","n","d"," ">>

S_relationships_from ==
  <<" ","r","e","l","a","t","i","o","n","s","h","i","p","s"," ","f","r","o","m"," ">>

S_concept ==
  <<"c","o","n","c","e","p","t">>

S_node ==
  <<"n","o","d","e">>

S_relationship ==
  <<"r","e","l","a","t","i","o","n","s","h","i","p">>

S_connection ==
  <<"c","o","n","n","e","c","t","i","o","n">>

S_document ==
  <<"d","o","c","u","m","e","n","t">>

S_file ==
  <<"f","i","l","e">>

\* analyze_question (demo_app.py:428-494): the type of the question, the first
\* entry of question_patterns with a pattern the question holds
QuestionType(question) ==
  LET question_lower == Strip(Lower(question))
      hits == {k \in DOMAIN question_patterns :
                 \E p \in question_patterns[k].patterns : Contains(question_lower, p)}
  IN IF hits = {} THEN "general"
     ELSE question_patterns[CHOOSE k \in hits : \A m \in hits : k <= m].qtype

\* generate_answer (demo_app.py:496-517, 753-759) for question_type 'count',
\* the type of every question asked here; the relevance scores that
\* analyze_question computes are not used by this branch
generate_answer(original_question, graph_data, content_data) ==
  LET nodes == graph_data.nodes
      edges == graph_data.edges
      q == Lower(original_question)
      Ids(list, n) == [i \in 1..Min(n, Len(list)) |-> list[i].id]
      Result(answer, evidence_nodes, evidence_edges) ==
        [answer |-> answer,
         evidence |-> [node_ids |-> SubSeq(evidence_nodes, 1, Min(10, Len(evidence_nodes))),
                       edge_ids |-> SubSeq(evidence_edges, 1, Min(10, Len(evidence_edges))),
                       document_ids |-> [i \in 1..Min(3, Len(content_data)) |-> content_data[i].name]]]
  IN IF Contains(q, S_concept) \/ Contains(q, S_node)
     THEN Result(S_contains \o Str(Len(nodes)) \o S_concepts_extracted, Ids(nodes, 8), <<>>)
     ELSE IF Contains(q, S_relationship) \/ Contains(q, S_connection)
     THEN Result(S_there_are \o Str(Len(edges)) \o S_relationships_between, <<>>, Ids(edges, 8))
     ELSE IF Contains(q, S_document) \/ Contains(q, S_file)
     THEN Result(S_you_have \o Str(Len(content_data)) \o S_documents, <<>>, <<>>)
     ELSE Result(S_contains \o Str(Len(nodes)) \o S_concepts_and \o Str(Len(edges))
                   \o S_relationships_from \o Str(Len(content_data)) \o S_documents,
                 Ids(nodes, 5), Ids(edges, 3))

DemoNoEvidence == [node_ids |-> <<>>, edge_ids |-> <<>>, document_ids |-> <<>>]

\* the answer to thread t, the rest of the production state left alone
DemoAnswer(t, response) ==
  /\ responses' = [responses EXCEPT ![t] = response]
  /\ UNCHANGED <<ingest_jobs, documents, graph_sync, neo4j, procs, ingest_runs, build_runs,
                 qa_logs>>

\* create_ingest_job of the demo (demo_app.py:159-214); files is a list of
\* [filename, content], the request carries no URLs; job_id is the number
\* random.randint draws
demo_create_ingest_job(t, files, job_id) ==
  IF files = <<>>
  THEN /\ DemoAnswer(t, [op |-> "demo_create_ingest_job", code |-> 400])
       /\ UNCHANGED demo_state
  ELSE LET named == SelectSeq(files, LAMBDA f : f.filename # "")
           content == [i \in DOMAIN named |->
                         [name |-> named[i].filename, content |-> named[i].content, type |-> "file"]]
           total_bytes == LET S[i \in 0..Len(named)] ==
                                IF i = 0 THEN 0 ELSE S[i - 1] + Len(named[i].content)
                          IN S[Len(named)]
       IN /\ demo_state' = [demo_state EXCEPT
               !.processed_content = content,
               !.dynamic_graph_data = None,
               !.graph_built = FALSE,
               !.current_job_id = job_id,
               !.uploaded_files = [i \in DOMAIN files |-> files[i].filename]]
          /\ DemoAnswer(t, [op |-> "demo_create_ingest_job", code |-> 201, job_id |-> job_id,
                            total_bytes |-> total_bytes, inputs_count |-> Len(files)])

\* the list with its ids renumbered to follow the first `from` ids
Renumbered(list, from) == [i \in DOMAIN list |-> [list[i] EXCEPT !.id = from + i]]

\* the graph after one more content item: before is the graph of the items
\* before it, concepts the renumbered concepts of the item
DemoGraphWith(before, concepts) ==
  [nodes |-> before.nodes \o concepts,
   edges |-> before.edges \o Renumbered(create_relationships(concepts), Len(before.edges))]

DemoGraphAfter(before, text) ==
  DemoGraphWith(before, Renumbered(extract_concepts_from_text(text), Len(before.nodes)))

\* the nodes and edges build_graph collects from the first n content items:
\* the concepts of an item are renumbered after those before it, its edges
\* made from the renumbered concepts and renumbered in turn
RECURSIVE DemoGraph(_, _)
DemoGraph(processed_content, n) ==
  IF n = 0 THEN [nodes |-> <<>>, edges |-> <<>>]
  ELSE DemoGraphAfter(DemoGraph(processed_content, n - 1), processed_content[n].content)

\* build_graph of the demo (demo_app.py:238-291); job_id is None when the body
\* names none
demo_build_graph(t, job_id, sync_id) ==
  IF job_id # demo_state.current_job_id
  THEN /\ DemoAnswer(t, [op |-> "demo_build_graph", code |-> 400])
       /\ UNCHANGED demo_state
  ELSE /\ demo_state' = [demo_state EXCEPT
            !.dynamic_graph_data = DemoGraph(demo_state.processed_content,
                                             Len(demo_state.processed_content)),
            !.current_sync_id = sync_id]
       /\ DemoAnswer(t, [op |-> "demo_build_graph", code |-> 201, sync_id |-> sync_id])

\* get_build_status of the demo (demo_app.py:293-321): the flag is set before
\* the graph data is read, and reading the lengths of no graph data raises
demo_get_build_status(t, sync_id) ==
  IF sync_id # demo_state.current_sync_id
  THEN /\ DemoAnswer(t, [op |-> "demo_get_build_status", code |-> 404])
       /\ UNCHANGED demo_state
  ELSE /\ demo_state' = [demo_state EXCEPT !.graph_built = TRUE]
       /\ IF demo_state.dynamic_graph_data = None
          THEN DemoAnswer(t, [op |-> "demo_get_build_status", code |-> 500])
          ELSE DemoAnswer(t, [op |-> "demo_get_build_status", code |-> 200,
                              nodes_created |-> Len(demo_state.dynamic_graph_data.nodes),
                              edges_created |-> Len(demo_state.dynamic_graph_data.edges),
                              documents_processed |-> Len(demo_state.processed_content)])

\* ask_question of the demo (demo_app.py:817-856)
demo_ask_question(t, asked) ==
  LET question == Strip(asked)
      graph_data == demo_state.dynamic_graph_data
      Reply(code, result) ==
        DemoAnswer(t, [op |-> "demo_ask_question", code |-> code, question |-> asked,
                       answer |-> result.answer, evidence |-> result.evidence])
      Fixed(answer) == [answer |-> answer, evidence |-> DemoNoEvidence]
  IN /\ QuestionType(question) = "count" \/ question = <<>>
     /\ UNCHANGED demo_state
     /\ IF ~demo_state.graph_built THEN Reply(200, Fixed(BuildFirstAnswer))
        ELSE IF question = <<>> THEN Reply(200, Fixed(EnterQuestionAnswer))
        ELSE IF graph_data = None THEN Reply(500, Fixed(DemoErrorAnswer))
        ELSE IF graph_data.nodes = <<>> THEN Reply(200, Fixed(NoConceptsAnswer))
        ELSE Reply(200, generate_answer(question, graph_data, demo_state.processed_content))

(***************************************************************************)
(* SpecDemo: uploads of one or two files, builds, status requests and      *)
(* counting questions, in any order.                                       *)
(***************************************************************************)
DemoFiles ==
  {[filename |-> "a.txt", content |-> DemoTextA], [filename |-> "b.txt", content |-> DemoTextB],
   [filename |-> "c.txt", content |-> DemoTextC], [filename |-> "d.txt", content |-> DemoTextD]}

FileOf(text) == CHOOSE f \in DemoFiles : f.content = text

DemoUploads ==
  {<<>>, <<FileOf(DemoTextA)>>, <<FileOf(DemoTextB)>>, <<FileOf(DemoTextD)>>,
   <<FileOf(DemoTextA), FileOf(DemoTextB)>>, <<FileOf(DemoTextC), FileOf(DemoTextB)>>}

\* two of the numbers random.randint(1000, 9999) can draw, as the ids made of them
DemoIds == {[n |-> 1000], [n |-> 9999]}

DemoQuestions ==
  {<<>>, HowManyConcepts, HowManyNodes, HowManyRelationships, NumberOfFiles, HowMany,
   TotalConnections}

DemoIngestRequest(t) ==
  \E files \in DemoUploads, job_id \in DemoIds : demo_create_ingest_job(t, files, job_id)

DemoBuildRequest(t) ==
  \E job_id \in DemoIds \cup {None}, sync_id \in DemoIds : demo_build_graph(t, job_id, sync_id)

DemoStatusRequest(t) == \E sync_id \in DemoIds : demo_get_build_status(t, sync_id)

DemoAskRequest(t) == \E asked \in DemoQuestions : demo_ask_question(t, asked)

NextDemo ==
  \/ DemoIngestRequest(1)
  \/ DemoBuildRequest(1)
  \/ DemoStatusRequest(1)
  \/ DemoAskRequest(1)

SpecDemo == Init /\ [][NextDemo]_vars

(***************************************************************************)
(* Builds running side by side: the body of "for doc in documents" as the  *)
(* sequence of graph store calls it makes, one call a step.                *)
(***************************************************************************)
StoreCall(call, arg) == [call |-> call, arg |-> arg]

\* the calls of "for concept_data in concepts" (graph.py:243-279), with the
\* in-job concept map and the number of merges they leave
RECURSIVE ConceptCalls(_, _, _)
ConceptCalls(plan, concepts, doc_id) ==
  IF concepts = <<>> THEN plan
  ELSE
    LET concept_data == Head(concepts)
        canonical_key == concept_data.canonical_key
        merged == canonical_key \in DOMAIN plan.all_concepts
        node == IF merged THEN <<>>
                ELSE <<StoreCall("create_concept_node",
                                 [id |-> concept_data.id, label |-> concept_data.label,
                                  canonical_key |-> canonical_key])>>
        mentions == StoreCall("create_relationship",
                              GraphEdge(doc_id, concept_data.id, "MENTIONS",
                                        [span_start |-> concept_data.span_start,
                                         span_end |-> concept_data.span_end]))
    IN ConceptCalls(
         [calls |-> plan.calls \o node \o <<mentions>>,
          all_concepts |->
            IF merged
            THEN [plan.all_concepts EXCEPT ![canonical_key].doc_ids = Append(@, doc_id)]
            ELSE Upd(plan.all_concepts, canonical_key,
                     [id |-> concept_data.id, label |-> concept_data.label,
                      doc_ids |-> <<doc_id>>]),
          concepts_merged |-> plan.concepts_merged + (IF merged THEN 1 ELSE 0)],
         Tail(concepts), doc_id)

\* a build that stops after the document node
DocumentCallsDocumentOnly(all_concepts, doc) ==
  [calls |-> <<StoreCall("create_document_node",
                         [id |-> doc._id, source_uri |-> doc.source_uri,
                          content_hash |-> doc.content_hash])>>,
   all_concepts |-> all_concepts, concepts_merged |-> 0]

\* the calls of one iteration of "for doc in documents" (graph.py:227-298)
DocumentCalls(all_concepts, doc) ==
  LET doc_id == doc._id
      extracted == extract_concepts_and_relations(doc.content_text, doc_id)
      first == StoreCall("create_document_node",
                         [id |-> doc_id, source_uri |-> doc.source_uri,
                          content_hash |-> doc.content_hash])
      plan == ConceptCalls([calls |-> <<first>>, all_concepts |-> all_concepts,
                            concepts_merged |-> 0],
                           extracted.concepts, doc_id)
      relations ==
        [i \in DOMAIN extracted.relations |->
           LET relation == extracted.relations[i]
           IN StoreCall("create_relationship",
                        GraphEdge(relation.source_id, relation.target_id, relation.relation_type,
                                  [weight |-> relation.weight, dependency |-> relation.dependency,
                                   doc_id |-> doc_id]))]
  IN [plan EXCEPT !.calls = @ \o relations]

\* the iteration starts (graph.py:227-240)
BuildCallsBegin(t) ==
  LET p == procs[t] IN
  /\ p.pc = "build_docs"
  /\ p.i <= Len(p.docs)
  /\ LET plan == DocumentCalls(p.all_concepts, p.docs[p.i])
     IN procs' = [procs EXCEPT ![t] =
          [pc |-> "build_calls", sync_id |-> p.sync_id, ingest_job_id |-> p.ingest_job_id,
           docs |-> p.docs, i |-> p.i,
           stats |-> [p.stats EXCEPT !.concepts_merged = @ + plan.concepts_merged],
           all_concepts |-> plan.all_concepts, before |-> p.before, calls |-> plan.calls]]
  /\ UNCHANGED <<ingest_jobs, documents, graph_sync, neo4j, responses, ingest_runs, build_runs,
                 qa_logs, demo_state>>

\* one call of the graph store, a transaction of its own
BuildCall(t) ==
  LET p == procs[t] IN
  /\ p.pc = "build_calls"
  /\ p.calls # <<>>
  /\ LET c == Head(p.calls)
         done == CASE c.call = "create_document_node" -> create_document_node(neo4j, c.arg)
                   [] c.call = "create_concept_node" -> create_concept_node(neo4j, c.arg)
                   [] c.call = "create_relationship" -> create_relationship(neo4j, c.arg)
         stats == CASE c.call = "create_document_node" -> p.stats
                    [] c.call = "create_concept_node" -> Count(p.stats, "nodes_created", done.ok)
                    [] c.call = "create_relationship" -> Count(p.stats, "edges_created", done.ok)
     IN /\ neo4j' = done.db
        /\ procs' = [procs EXCEPT ![t] = [p EXCEPT !.calls = Tail(p.calls), !.stats = stats]]
  /\ UNCHANGED <<ingest_jobs, documents, graph_sync, responses, ingest_runs, build_runs,
                 qa_logs, demo_state>>

\* the iteration ends (graph.py:297-298)
BuildCallsEnd(t) ==
  LET p == procs[t] IN
  /\ p.pc = "build_calls"
  /\ p.calls = <<>>
  /\ procs' = [procs EXCEPT ![t] =
       [pc |-> "build_docs", sync_id |-> p.sync_id, ingest_job_id |-> p.ingest_job_id,
        docs |-> p.docs, i |-> p.i + 1,
        stats |-> [p.stats EXCEPT !.documents_processed = @ + 1],
        all_concepts |-> p.all_concepts, before |-> p.before]]
  /\ UNCHANGED <<ingest_jobs, documents, graph_sync, neo4j, responses, ingest_runs, build_runs,
                 qa_logs, demo_state>>

(***************************************************************************)
(* SpecConcurrent: one job of two documents is ingested, then built twice, *)
(* by two request threads in any interleaving of their store calls.        *)
(***************************************************************************)
PairIngestRequest(t) ==
  /\ procs[t].pc = "idle"
  /\ ingest_jobs = <<>>
  /\ create_ingest_job(t, SubSeq(ChainFiles, 1, 2), <<>>)

JobBuildRequest(t) ==
  /\ procs[t].pc = "idle"
  /\ Len(graph_sync) < MaxSyncs
  /\ build_graph(t, 1)

NextConcurrent ==
  \/ PairIngestRequest(1)
  \/ IngestBegin(1)
  \/ IngestFile(1)
  \/ IngestFilesDone(1)
  \/ IngestSave(1)
  \/ IngestFinish(1)
  \/ \E t \in Threads : JobBuildRequest(t)
  \/ \E t \in Threads : BuildBegin(t)
  \/ \E t \in Threads : BuildCallsBegin(t)
  \/ \E t \in Threads : BuildCall(t)
  \/ \E t \in Threads : BuildCallsEnd(t)
  \/ \E t \in Threads : BuildFinish(t)

SpecConcurrent == Init /\ [][NextConcurrent]_vars

(***************************************************************************)
(* Properties.                                                             *)
(***************************************************************************)
ConceptKeys(nodeKeys) == {k \in nodeKeys : k[1] = "Concept"}

SyncIds == 1..Len(graph_sync)
JobIds == 1..Len(ingest_jobs)

\* every concept and relation candidate the analyzer can produce
Candidates ==
  {[concepts |-> extract_concepts_and_relations(c.text, DocId(1)).concepts,
    relations |-> extract_concepts_and_relations(c.text, DocId(1)).relations] : c \in Contents}

CandidateConcepts == UNION {Range(x.concepts) : x \in Candidates}

CandidateEdges ==
  UNION {{GraphEdge(r.source_id, r.target_id, r.relation_type,
                    [weight |-> r.weight, dependency |-> r.dependency, doc_id |-> r.doc_id]) :
            r \in Range(x.relations)} : x \in Candidates}
  \cup {GraphEdge(d[2], c.id, "MENTIONS", [span_start |-> c.span_start, span_end |-> c.span_end]) :
          d \in {k \in DOMAIN neo4j.nodes : k[1] = "Document"}, c \in CandidateConcepts}

Size(db) == [nodes |-> Cardinality(DOMAIN db.nodes), rels |-> Cardinality(DOMAIN db.rels)]

\* C1 (first half): in every reachable graph store, a second create_concept_node
\* with the same concept, or a second create_relationship with the same
\* (source, target, type), leaves the node and relationship counts where the
\* first application put them.
UpsertTwiceKeepsCounts ==
  /\ \A c \in CandidateConcepts :
        LET once == create_concept_node(neo4j, c).db
        IN Size(create_concept_node(once, c).db) = Size(once)
  /\ \A e \in CandidateEdges :
        LET once == create_relationship(neo4j, e).db
        IN Size(create_relationship(once, e).db) = Size(once)

\* the builds of the job of sync s that completed before s began
EarlierBuildsOfJob(s) ==
  {r \in DOMAIN build_runs : /\ r < s
                             /\ graph_sync[r].ingest_job_id = graph_sync[s].ingest_job_id
                             /\ ~build_runs[r].escaped}

\* C1: graph-store upserts are idempotent, and a completed build of a job
\* that was already built to completion leaves the graph store with the
\* nodes and relationships it found.
C1_UpsertsIdempotent ==
  /\ UpsertTwiceKeepsCounts
  /\ \A s \in DOMAIN build_runs :
        (~build_runs[s].escaped /\ EarlierBuildsOfJob(s) # {})
           => build_runs[s].after = build_runs[s].before

\* a job with documents has been built to completion twice
C1_Witness ==
  \E s \in DOMAIN build_runs :
     /\ ~build_runs[s].escaped
     /\ EarlierBuildsOfJob(s) # {}
     /\ Len(build_runs[s].docs) = 2
     /\ build_runs[s].after.rels # {}

\* C2: the id of a Concept node is the digest of its canonical_key, and the
\* graph store never holds two Concept nodes with the same canonical_key.
C2_OneNodePerCanonicalKey ==
  \A k1 \in ConceptKeys(DOMAIN neo4j.nodes) :
     /\ k1[2] = _generate_concept_id(neo4j.nodes[k1].canonical_key)
     /\ \A k2 \in ConceptKeys(DOMAIN neo4j.nodes) :
           neo4j.nodes[k1].canonical_key = neo4j.nodes[k2].canonical_key => k1 = k2

\* one Concept node is mentioned by documents of two completed builds, which
\* saw it under different surface texts
C2_Witness ==
  \E k \in ConceptKeys(DOMAIN neo4j.nodes) :
     \E d1, d2 \in DOMAIN neo4j.nodes :
        /\ d1 # d2
        /\ <<d1, k, "MENTIONS">> \in Triples(DOMAIN neo4j.rels)
        /\ <<d2, k, "MENTIONS">> \in Triples(DOMAIN neo4j.rels)
        /\ \E s1, s2 \in DOMAIN build_runs :
              /\ s1 # s2
              /\ graph_sync[s1].ingest_job_id # graph_sync[s2].ingest_job_id
              /\ \E i \in 1..Len(build_runs[s1].docs) : build_runs[s1].docs[i]._id = d1[2]
              /\ \E i \in 1..Len(build_runs[s2].docs) : build_runs[s2].docs[i]._id = d2[2]

\* C3: the stats of every completed build count first creations only:
\* nodes_created is the number of Concept nodes the build added to the graph
\* store and edges_created the number of relationships it added.
C3_StatsCountFirstCreations ==
  \A s \in DOMAIN build_runs :
     ~build_runs[s].escaped =>
        /\ build_runs[s].stats.nodes_created =
             Cardinality(ConceptKeys(build_runs[s].after.nodes)
                         \ ConceptKeys(build_runs[s].before.nodes))
        /\ build_runs[s].stats.edges_created =
             Cardinality(build_runs[s].after.rels \ build_runs[s].before.rels)

SyncStep(old, new) ==
  \/ new = old
  \/ old = "pending" /\ new = "in_progress"
  \/ old = "in_progress" /\ new \in {"completed", "failed"}

\* C4: a GraphSync record is created pending and its status only moves
\* pending -> in_progress -> completed | failed; it becomes completed with the
\* final stats of its build, failed only when an exception escaped the build,
\* and a completed or failed record is never changed again.
C4_SyncForwardOnly ==
  [][/\ Len(graph_sync') >= Len(graph_sync)
     /\ \A s \in 1..Len(graph_sync') :
          IF s \in SyncIds
          THEN /\ SyncStep(graph_sync[s].status, graph_sync'[s].status)
               /\ graph_sync[s].status \in {"completed", "failed"}
                    => graph_sync'[s] = graph_sync[s]
               /\ (graph_sync[s].status # "completed" /\ graph_sync'[s].status = "completed")
                    => /\ s \in DOMAIN build_runs'
                       /\ ~build_runs'[s].escaped
                       /\ graph_sync'[s].stats = build_runs'[s].stats
               /\ (graph_sync[s].status # "failed" /\ graph_sync'[s].status = "failed")
                    => /\ s \in DOMAIN build_runs'
                       /\ build_runs'[s].escaped
                       /\ graph_sync'[s].error # None
          ELSE graph_sync'[s].status = "pending"]_vars

\* one build has completed, another has failed, and a third request started
\* afterwards
C4_Witness ==
  /\ \E s \in SyncIds : graph_sync[s].status = "completed" /\ graph_sync[s].stats.nodes_created > 0
  /\ \E s \in SyncIds : graph_sync[s].status = "failed"

JobStep(old, new) ==
  \/ new = old
  \/ old = "queued" /\ new = "processing"
  \/ old = "processing" /\ new \in {"completed", "failed"}

\* C5: an IngestJob is created queued and its status only moves
\* queued -> processing -> completed | failed; a completed or failed job is
\* never changed again.
C5_JobForwardOnly ==
  [][/\ Len(ingest_jobs') >= Len(ingest_jobs)
     /\ \A j \in 1..Len(ingest_jobs') :
          IF j \in JobIds
          THEN /\ JobStep(ingest_jobs[j].status, ingest_jobs'[j].status)
               /\ ingest_jobs[j].status \in {"completed", "failed"}
                    => ingest_jobs'[j] = ingest_jobs[j]
          ELSE ingest_jobs'[j].status = "queued"]_vars

\* one job has completed, another has failed
C5_Witness ==
  /\ \E j \in JobIds : ingest_jobs[j].status = "completed"
  /\ \E j \in JobIds : ingest_jobs[j].status = "failed"

\* the documents of a build on which concept extraction raises
RaisingDocs(docs) == {i \in 1..Len(docs) : NlpOf(docs[i].content_text).raises}

\* C6: a completed build over two documents, on exactly one of which concept
\* extraction raises, reports documents_processed = 1 and records an error
\* message for the failing document.
C6_FailingDocumentSkipped ==
  \A s \in DOMAIN build_runs :
     (/\ ~build_runs[s].escaped
      /\ Len(build_runs[s].docs) = 2
      /\ Cardinality(RaisingDocs(build_runs[s].docs)) = 1)
        => /\ graph_sync[s].status = "completed"
           /\ build_runs[s].stats.documents_processed = 1
           /\ graph_sync[s].error # None

\* the inputs _process_ingestion_job works on: the named files, then the URLs
WorkedInputs(run) == Len(NamedFiles(run.files)) + Len(run.urls)

\* C7: a finished ingestion job is failed only if every one of its inputs
\* failed or an exception escaped the job; with at least one input processed
\* (and no escaping exception) it is completed; and when inputs failed, its
\* error text is the summary of the first three failure messages.
C7_FailedOnlyIfAllFailed ==
  \A j \in DOMAIN ingest_runs :
     LET run == ingest_runs[j]
         job == ingest_jobs[j]
     IN /\ job.status \in {"completed", "failed"}
        /\ job.status = "failed"
             => \/ run.escaped
                \/ /\ run.errors # <<>>
                   /\ Len(run.errors) = WorkedInputs(run)
        /\ (run.processed_docs # <<>> /\ ~run.escaped) => job.status = "completed"
        /\ (run.errors # <<>> /\ ~run.escaped)
             => /\ job.error # None
                /\ Len(job.error.messages) = Min(3, Len(run.errors))
                /\ \A i \in 1..Len(job.error.messages) : job.error.messages[i] = run.errors[i]
        /\ (run.errors = <<>> /\ ~run.escaped) => job.error = None

\* a job completed with one input processed and more than three failures
C7_Witness ==
  \E j \in DOMAIN ingest_runs :
     /\ ingest_jobs[j].status = "completed"
     /\ ingest_runs[j].processed_docs # <<>>
     /\ Len(ingest_runs[j].errors) > 3
     /\ Len(ingest_jobs[j].error.messages) = 3

\* the inputs of a finished job that carry content
ContentInputs(run) ==
  {ContentHash(f.text) : f \in {g \in Range(run.files) : g.filename # "" /\ ~g.raises}}
  \cup {ContentHash(get_website_text_content(u)) :
          u \in {v \in Range(run.urls) : get_website_text_content(v) # <<>>}}

C9_BuildOnlyForCompletedJob ==
  [][\A t \in Threads :
       /\ (procs[t].pc = "idle" /\ responses'[t] # responses[t]
           /\ responses'[t].op = "build_graph")
            => LET j == responses'[t].ingest_job_id
               IN /\ graph_sync' = graph_sync
                  /\ neo4j' = neo4j
                  /\ j \notin JobIds \/ ingest_jobs[j].status # "completed"
                  /\ responses'[t].code = IF j # 0 /\ j \notin JobIds THEN 404 ELSE 400
       /\ (procs[t].pc = "idle" /\ procs'[t].pc = "build_begin")
            => LET j == procs'[t].ingest_job_id
               IN /\ j \in JobIds
                  /\ ingest_jobs[j].status = "completed"
                  /\ Len(graph_sync') = Len(graph_sync) + 1
                  /\ procs'[t].sync_id = Len(graph_sync')
                  /\ graph_sync'[procs'[t].sync_id].status = "pending"
                  /\ graph_sync'[procs'[t].sync_id].ingest_job_id = j
       /\ (procs[t].pc \in {"build_docs"} /\ procs'[t].pc = "idle")
            => /\ responses'[t].code = 201
               /\ responses'[t].sync_id = procs[t].sync_id]_vars

\* after an accepted build has run to completion, a build of a failed job has
\* been answered 400
C9_Witness ==
  /\ responses[1].op = "build_graph"
  /\ responses[1].code = 400
  /\ responses[1].ingest_job_id \in JobIds
  /\ ingest_jobs[responses[1].ingest_job_id].status = "failed"
  /\ \E s \in SyncIds : graph_sync[s].status = "completed"
  /\ neo4j.nodes # EmptyFn

\* the nodes within n relationships, followed in either direction, of a set
\* of nodes
RECURSIVE Within(_, _)
Within(S, n) ==
  IF n < 0 THEN {}
  ELSE IF n = 0 THEN S
  ELSE Within(S \cup {k \in DOMAIN neo4j.nodes :
                        \E e \in DOMAIN neo4j.rels :
                           \/ e[1] \in S /\ e[2] = k
                           \/ e[2] \in S /\ e[1] = k}, n - 1)

\* the seed nodes of a request: the concepts it names by id or matches by text
RequestSeeds(req) ==
  {k \in DOMAIN neo4j.nodes :
     /\ k[1] = "Concept"
     /\ \/ k[2] \in req.concept_ids
        \/ /\ req.query # <<>>
           /\ \/ Contains(neo4j.nodes[k].label, req.query)
              \/ Contains(neo4j.nodes[k].canonical_key, req.query)}

\* the answers to subgraph requests given by this step
NewSubgraphAnswers ==
  {responses'[t] : t \in {u \in Threads : /\ responses'[u] # responses[u]
                                           /\ responses'[u].op = "get_subgraph"}}

HopsRespected(r) ==
  r.nodes \subseteq Within(RequestSeeds(r.request), Min(r.request.max_hops, 3))

C11_ParametersClamped ==
  \A t \in Threads :
    responses[t].op = "get_subgraph" =>
      /\ ClampMaxHops(responses[t].request.max_hops) \in 0..3
      /\ ClampMaxNodes(responses[t].request.max_nodes) \in 1..200

\* the nodes within n relationships of the given types, followed in either
\* direction, of a set of nodes
RECURSIVE WithinBy(_, _, _)
WithinBy(S, n, types) ==
  IF n < 0 THEN {}
  ELSE IF n = 0 THEN S
  ELSE WithinBy(S \cup {k \in DOMAIN neo4j.nodes :
                          \E e \in DOMAIN neo4j.rels :
                             /\ e[3] \in types
                             /\ \/ e[1] \in S /\ e[2] = k
                                \/ e[2] \in S /\ e[1] = k}, n - 1, types)

\* C12: when a subgraph request gives a relation-type allow-list, every edge
\* of the answer has a type of the list and every node of the answer is
\* reached from a seed through relationships of listed types only.
C12_AllowListRespected ==
  [][\A r \in NewSubgraphAnswers :
       r.request.relation_types # {} =>
         /\ \A e \in r.edges : e[3] \in r.request.relation_types
         /\ r.nodes \subseteq WithinBy(RequestSeeds(r.request),
                                       Min(r.request.max_hops, 3),
                                       r.request.relation_types)]_vars

\* C13: a concept search whose query string is empty or only whitespace is
\* answered with an empty concept list, whatever the graph holds.
C13_EmptySearchFindsNothing ==
  \A t \in Threads :
    (responses[t].op = "search_concepts" /\ Strip(responses[t].request.q) = <<>>) =>
      /\ responses[t].code = 200
      /\ responses[t].concepts = <<>>

\* a whitespace-only search was answered, with a limit that would let concepts
\* through, while the graph holds concepts
C13_Witness ==
  \E t \in Threads :
    /\ responses[t].op = "search_concepts"
    /\ responses[t].request.q # <<>>
    /\ Strip(responses[t].request.q) = <<>>
    /\ responses[t].request.limit > 0
    /\ responses[t].concepts = <<>>
    /\ \E k \in DOMAIN neo4j.nodes : k[1] = "Concept"

\* a step in which thread t was answered by ask_question
AskStep(t) ==
  /\ responses'[t].op = "ask_question"
  /\ responses'[t] # responses[t] \/ qa_logs' # qa_logs

\* the question of a request as ask_question reads it
AskedQuestion(req) == Strip(req.question)

\* no concept of the graph store matches the question: the search finds no
\* concept for any of its terms, or none of its entities and noun phrases
\* matches a node of the graph
NoConceptMatches(db, req) ==
  LET question == AskedQuestion(req)
      whole == [nodes |-> {NodeDict(db, k) : k \in DOMAIN db.nodes}, edges |-> {}]
  IN \/ FoundConceptIds(db, QuestionWords(Lower(question)), req.store_fails) = {{}}
     \/ /\ ~NlpOf(Lower(question)).raises
        /\ MatchingNodes(whole, QuestionConcepts(NlpOf(Lower(question)))) = {}

C15_EveryAskLogged ==
  [][\A t \in Threads :
       AskStep(t) =>
         /\ Len(qa_logs') = Len(qa_logs) + 1
         /\ SubSeq(qa_logs', 1, Len(qa_logs)) = qa_logs]_vars

\* graph retrieval or answer generation raises while the request is served:
\* the graph store fails, or the language pipeline fails on the question once
\* the search has found concepts for it
AskFails(db, req) ==
  LET question == AskedQuestion(req)
  IN \/ req.store_fails
     \/ /\ NlpOf(Lower(question)).raises
        /\ {} \notin FoundConceptIds(db, QuestionWords(Lower(question)), FALSE)

\* C16: whenever graph retrieval or answer generation fails with an exception
\* during ask_question, the caller receives the apology answer together with
\* an error flag, and the QALog entry written for the call has status "error"
\* and carries the error text.
C16_FailureFlaggedAndLogged ==
  [][\A t \in Threads :
       (/\ AskStep(t)
        /\ responses'[t].request.has_question
        /\ AskedQuestion(responses'[t].request) # <<>>
        /\ AskFails(neo4j, responses'[t].request)) =>
         /\ responses'[t].answer = ErrorAnswer
         /\ responses'[t].error
         /\ Len(qa_logs') = Len(qa_logs) + 1
         /\ qa_logs'[Len(qa_logs')].status = "error"
         /\ qa_logs'[Len(qa_logs')].error # None]_vars

\* C17: every answer of ask_question carries at most 10 evidence node ids, at
\* most 10 evidence edge ids and at most 20 evidence document ids.
C17_EvidenceCapped ==
  \A t \in Threads :
    (responses[t].op = "ask_question" /\ responses[t].code = 200) =>
      /\ Len(responses[t].evidence.node_ids) <= 10
      /\ Len(responses[t].evidence.edge_ids) <= 10
      /\ Len(responses[t].evidence.document_ids) <= 20

\* the documents of the graph store with a MENTIONS edge to one of the concepts
MentioningDocuments(db, concept_ids) ==
  {e[1][2] : e \in {r \in DOMAIN db.rels : /\ r[3] = "MENTIONS"
                                           /\ r[1][1] = "Document"
                                           /\ r[2][1] = "Concept"
                                           /\ r[2][2] \in concept_ids}}

\* C18: the evidence document ids are the provenance of the evidence concepts:
\* every document with a MENTIONS edge to an evidence concept is in
\* document_ids (when they fit under the cap of 20), and every id in
\* document_ids is a document that mentions some evidence concept.
C18_DocumentIdsAreProvenance ==
  [][\A t \in Threads :
       (AskStep(t) /\ responses'[t].code = 200) =>
         LET mentioning == MentioningDocuments(neo4j, Range(responses'[t].evidence.node_ids))
             document_ids == Range(responses'[t].evidence.document_ids)
         IN /\ document_ids \subseteq mentioning
            /\ Cardinality(mentioning) <= 20 => mentioning \subseteq document_ids]_vars

\* the value of a run of decimal digits
RECURSIVE ParseNat(_)
ParseNat(run) ==
  IF run = <<>> THEN 0
  ELSE 10 * ParseNat(SubSeq(run, 1, Len(run) - 1)) + (IndexIn(run[Len(run)], DigitChars) - 1)

\* the numbers a text contains: the values of its maximal runs of digits
NumbersIn(text) ==
  {ParseNat(SubSeq(text, i, RunEnd(text, i, "digit") - 1)) :
     i \in {k \in DOMAIN text : IsDigit(text[k]) /\ (k = 1 \/ ~IsDigit(text[k - 1]))}}

\* a step in which thread t was answered by the ask_question of the demo
DemoAskStep(t) ==
  /\ responses'[t].op = "demo_ask_question"
  /\ responses'[t] # responses[t]

\* C19: asking "how many concepts are there?" against a built graph of N >= 1
\* concepts and M edges returns an answer text that contains both the number N
\* and the number M, together with a non-empty evidence node list.
C19_CountAnswerNamesBoth ==
  [][\A t \in Threads :
       (/\ DemoAskStep(t)
        /\ responses'[t].question = HowManyConcepts
        /\ demo_state.graph_built
        /\ demo_state.dynamic_graph_data # None
        /\ Len(demo_state.dynamic_graph_data.nodes) >= 1) =>
         /\ Len(demo_state.dynamic_graph_data.nodes) \in NumbersIn(responses'[t].answer)
         /\ Len(demo_state.dynamic_graph_data.edges) \in NumbersIn(responses'[t].answer)
         /\ responses'[t].evidence.node_ids # <<>>]_vars

\* the graph store a single build of the documents leaves, starting empty
RECURSIVE BuiltAlone(_, _)
BuiltAlone(docs, n) ==
  IF n = 0
  THEN Acc([nodes |-> EmptyFn, rels |-> EmptyFn],
           [nodes_created |-> 0, edges_created |-> 0, concepts_merged |-> 0,
            documents_processed |-> 0],
           EmptyFn)
  ELSE ProcessDocument(BuiltAlone(docs, n - 1), docs[n])

\* two builds of job 1 were started and both have completed
TwoBuildsDone ==
  /\ Len(graph_sync) = 2
  /\ \A s \in 1..2 : graph_sync[s].ingest_job_id = 1 /\ graph_sync[s].status = "completed"

\* C20: after two builds of the same completed job, concurrent or one after
\* the other, in any interleaving of their graph store calls, the graph store
\* holds the nodes and the (source, target, type) edges that a single build of
\* the job leaves.
C20_TwoBuildsAsOne ==
  TwoBuildsDone =>
    LET docs == get_documents_by_job(1)
        alone == BuiltAlone(docs, Len(docs)).db
    IN /\ DOMAIN neo4j.nodes = DOMAIN alone.nodes
       /\ Triples(DOMAIN neo4j.rels) = Triples(DOMAIN alone.rels)

\* two request threads built the job at the same time: both builds began on
\* the empty graph store, both completed, and the store holds relationships
C20_Witness ==
  /\ TwoBuildsDone
  /\ \A t \in Threads : responses[t].op = "build_graph" /\ responses[t].code = 201
  /\ \A s \in 1..2 : s \in DOMAIN build_runs /\ build_runs[s].before.nodes = {}
  /\ \E k \in DOMAIN neo4j.rels : k[3] # "MENTIONS"
  /\ Cardinality({k \in DOMAIN neo4j.nodes : k[1] = "Document"}) = 2

(***************************************************************************)
(* SpecLive: ingestion jobs and their builds, with the scheduling of the   *)
(* workers.  _process_ingestion_job and _build_knowledge_graph run inside  *)
(* the request that started them (ingestion.py:100, graph.py:45), so a     *)
(* worker that has a step to take takes it.                                *)
(***************************************************************************)
LiveInputs == 1
LiveFiles == {FileA, FileUnreadable}
LiveUrls == {UrlDown}

NextLive ==
  \/ IngestRequest(1, LiveFiles, LiveUrls, LiveInputs, MaxJobs)
  \/ IngestStep(1)
  \/ BuildRequest(1)
  \/ BuildStep(1)

\* the positions at which _build_knowledge_graph has a step to take: at
\* build_begin BuildBegin, at build_docs BuildDocument or BuildFinish
BuildPending == procs[1].pc \in {"build_begin", "build_docs"}

\* weak fairness of the build worker, WF_vars(BuildStep(1)) written out with
\* BuildPending for ENABLED <<BuildStep(1)>>_vars
BuildFair == []<>(~BuildPending) \/ []<><<BuildStep(1)>>_vars

SpecLive == Init /\ [][NextLive]_vars /\ WF_vars(IngestStep(1)) /\ BuildFair

\* the status a status read returns for the job (ingestion.py:114-145) and
\* for the sync record (graph.py:57-81) is the status field of the record
JobTerminal(j) == j <= Len(ingest_jobs) /\ ingest_jobs[j].status \in {"completed", "failed"}

SyncTerminal(s) == s <= Len(graph_sync) /\ graph_sync[s].status \in {"completed", "failed"}

SearchStep(t) == responses'[t] # responses[t] /\ responses'[t].op = "search_concepts"

\* the concepts of the graph store whose label or canonical_key holds the
\* query when case is ignored
MatchingIgnoringCase(db, query) ==
  {k \in DOMAIN db.nodes :
     /\ k[1] = "Concept"
     /\ \/ Contains(Lower(db.nodes[k].label), Lower(query))
        \/ Contains(Lower(db.nodes[k].canonical_key), Lower(query))}

\* C22: a concept search with a query that is not blank returns exactly the
\* concepts whose label or canonical_key contains the query as a
\* case-insensitive substring, ordered by label ascending and truncated to
\* the limit, the limit being capped at 50.
C22_SearchIgnoresCase ==
  [][\A t \in Threads :
       (SearchStep(t) /\ Strip(responses'[t].request.q) # <<>>
          /\ responses'[t].request.limit >= 0) =>
         LET found == responses'[t].concepts
             limit == Min(responses'[t].request.limit, 50)
             matching == MatchingIgnoringCase(neo4j, Strip(responses'[t].request.q))
             returned == {<<"Concept", found[i].id>> : i \in DOMAIN found}
         IN /\ Len(found) = Min(Cardinality(matching), limit)
            /\ Cardinality(returned) = Len(found)
            /\ returned \subseteq matching
            /\ \A i, j \in DOMAIN found : i < j => ~StrLess(found[j].label, found[i].label)
            /\ \A k \in matching \ returned :
                 \A i \in DOMAIN found : ~StrLess(neo4j.nodes[k].label, found[i].label)]_vars

\* C23: a subgraph request that gives neither concept ids nor a query text,
\* asked of a graph that holds a concept, is answered with a broad sample: a
\* node list that is not empty and holds at most the node cap.
C23_BroadSampleWithoutSeeds ==
  [][\A r \in NewSubgraphAnswers :
       (/\ r.request.concept_ids = {}
        /\ r.request.query = <<>>
        /\ r.request.max_hops >= 0
        /\ r.request.max_nodes >= 1
        /\ \E k \in DOMAIN neo4j.nodes : k[1] = "Concept") =>
         /\ r.nodes # {}
         /\ Cardinality(r.nodes) <= ClampMaxNodes(r.request.max_nodes)]_vars

\* C24: the answer to a subgraph request holds every seed node, that is every
\* concept of the graph that the request names in concept_ids or, without
\* concept ids, matches by its query text, also when a seed has no
\* relationship and when the rows reached from the seeds fill the node cap.
\* Stated for the requests whose cap leaves room for the seeds.
C24_SeedsAlwaysIncluded ==
  [][\A r \in NewSubgraphAnswers :
       (/\ r.request.concept_ids = {} \/ r.request.query = <<>>
        /\ r.request.max_hops >= 0
        /\ r.request.max_nodes >= Cardinality(RequestSeeds(r.request))) =>
         RequestSeeds(r.request) \subseteq r.nodes]_vars

\* the documents the builds have processed: all documents of a build that
\* ran to its end, and the documents before its position of a running build
ProcessedDocuments ==
  UNION {Range(build_runs[s].docs) : s \in {r \in DOMAIN build_runs : ~build_runs[r].escaped}}
  \cup UNION {Range(SubSeq(procs[t].docs, 1, procs[t].i - 1)) :
                t \in {u \in Threads : procs[u].pc = "build_docs"}}

\* the ids of the concepts extracted from a document
ExtractedConceptIds(doc) ==
  LET concepts == extract_concepts_and_relations(doc.content_text, doc._id).concepts
  IN {concepts[i].id : i \in DOMAIN concepts}

Mentions(doc_id, concept_id) ==
  <<<<"Document", doc_id>>, <<"Concept", concept_id>>, "MENTIONS">> \in Triples(DOMAIN neo4j.rels)

RECURSIVE Consumed(_, _)
Consumed(docs, n) ==
  IF n = 0 THEN 0
  ELSE Consumed(docs, n - 1)
       + Len(extract_concepts_and_relations(docs[n].content_text, docs[n]._id).concepts)

\* the number of document ids the entries of an in-job map hold
RECURSIVE DocIdsHeld(_, _)
DocIdsHeld(all_concepts, keys) ==
  IF keys = {} THEN 0
  ELSE LET k == CHOOSE x \in keys : TRUE
       IN Len(all_concepts[k].doc_ids) + DocIdsHeld(all_concepts, keys \ {k})

\* the in-job map and the counter account for n candidates: every candidate
\* made an entry or was merged, and left its document id in its entry
Accounted(all_concepts, stats, n) ==
  /\ Cardinality(DOMAIN all_concepts) + stats.concepts_merged = n
  /\ DocIdsHeld(all_concepts, DOMAIN all_concepts) = n

\* C26: within one build a candidate whose canonical_key is in the in-job
\* map appends its document id to the entry and adds one to concepts_merged
\* without making an entry, so after every document the number of entries
\* plus concepts_merged is the number of candidates consumed so far.
C26_EntriesPlusMergedIsConsumed ==
  /\ \A t \in Threads :
       procs[t].pc = "build_docs" =>
         Accounted(procs[t].all_concepts, procs[t].stats,
                   Consumed(procs[t].docs, procs[t].i - 1))
  /\ \A s \in DOMAIN build_runs :
       ~build_runs[s].escaped =>
         Accounted(build_runs[s].all_concepts, build_runs[s].stats,
                   Consumed(build_runs[s].docs, Len(build_runs[s].docs)))

\* a build is past its second document and has merged a candidate into an
\* entry that now holds both document ids
C26_Witness ==
  \E t \in Threads :
    /\ procs[t].pc = "build_docs"
    /\ procs[t].i = 3
    /\ procs[t].stats.concepts_merged > 0
    /\ \E k \in DOMAIN procs[t].all_concepts :
         procs[t].all_concepts[k].doc_ids = <<procs[t].docs[1]._id, procs[t].docs[2]._id>>

(***************************************************************************)
(* The weight of a co-occurrence as a function of the distance: two pairs  *)
(* of concepts of one sentence, at distances d1 <= d2, are weighed.        *)
(***************************************************************************)

MaxDistance == 1000
DistanceGaps == {0, 1, 7, 100, 900}

\* the two pairs whose span starts lie distance[1] and distance[2] apart
InitWeight ==
  /\ ingest_jobs = <<>>
  /\ documents = <<>>
  /\ graph_sync = <<>>
  /\ neo4j = [nodes |-> EmptyFn, rels |-> EmptyFn]
  /\ \E d1 \in 0..MaxDistance : \E g \in DistanceGaps :
       procs = [t \in Threads |->
                  IF t = 1 THEN [pc |-> "co_occurs", distance |-> <<d1, d1 + g>>,
                                 weight |-> <<>>]
                  ELSE Idle]
  /\ responses = [t \in Threads |-> [op |-> "none", code |-> 0]]
  /\ ingest_runs = EmptyFn
  /\ build_runs = EmptyFn
  /\ qa_logs = <<>>
  /\ demo_state = DemoInit

\* weight = max(0.1, 1.0 / (1 + distance / 100)) for both pairs
\* (nlp_service.py:151-153)
CoOccurStep(t) ==
  /\ procs[t].pc = "co_occurs"
  /\ procs' = [procs EXCEPT ![t] =
                 [pc |-> "co_occurs_done", distance |-> procs[t].distance,
                  weight |-> <<CoOccurWeight(procs[t].distance[1]),
                               CoOccurWeight(procs[t].distance[2])>>]]
  /\ UNCHANGED <<ingest_jobs, documents, graph_sync, neo4j, responses, ingest_runs,
                 build_runs, qa_logs, demo_state>>

NextWeight == CoOccurStep(1)

SpecWeight == InitWeight /\ [][NextWeight]_vars

\* C27: the weight of a CO_OCCURS relation lies between 0.1 and 1.0 for
\* every non-negative distance, is 1.0 at distance 0, sits on the floor 0.1
\* from the distance 900 on (where 1/(1 + distance/100) reaches 0.1), and
\* of two distances the greater one never has the greater weight.
\* Weights are in thousandths.
C27_WeightNonIncreasingAndFloored ==
  \A t \in Threads :
    procs[t].pc = "co_occurs_done" =>
      LET d == procs[t].distance
          w == procs[t].weight
      IN /\ \A k \in 1..2 :
              /\ w[k] >= CoOccurFloor
              /\ w[k] <= 1000
              /\ (d[k] = 0) => (w[k] = 1000)
              /\ (d[k] >= 900) => (w[k] = CoOccurFloor)
              /\ (d[k] <= 900) => /\ w[k] * (100 + d[k]) <= 1000 * 100
                                  /\ (w[k] + 1) * (100 + d[k]) > 1000 * 100
         /\ (d[1] <= d[2]) => (w[2] <= w[1])

\* a pair above the floor and a more distant pair on the floor were weighed
C27_Witness ==
  \E t \in Threads :
    /\ procs[t].pc = "co_occurs_done"
    /\ procs[t].distance[1] = 50
    /\ procs[t].distance[2] = 950
    /\ procs[t].weight[1] > procs[t].weight[2]
    /\ procs[t].weight[2] = CoOccurFloor

(***************************************************************************)
(* Concept extraction as a function of the text: every analysed text of    *)
(* the model is extracted for every document id.                           *)
(***************************************************************************)

MaxDocIds == 4

InitExtract ==
  /\ ingest_jobs = <<>>
  /\ documents = <<>>
  /\ graph_sync = <<>>
  /\ neo4j = [nodes |-> EmptyFn, rels |-> EmptyFn]
  /\ \E c \in AllContents : \E n \in 1..MaxDocIds :
       procs = [t \in Threads |->
                  IF t = 1 THEN [pc |-> "extract", text |-> c.text, doc_id |-> DocId(n)]
                  ELSE Idle]
  /\ responses = [t \in Threads |-> [op |-> "none", code |-> 0]]
  /\ ingest_runs = EmptyFn
  /\ build_runs = EmptyFn
  /\ qa_logs = <<>>
  /\ demo_state = DemoInit

\* concepts, relations = nlp_service.extract_concepts_and_relations(content, doc_id)
ExtractStep(t) ==
  /\ procs[t].pc = "extract"
  /\ procs' = [procs EXCEPT ![t] =
                 [pc |-> "extract_done", text |-> procs[t].text,
                  doc_id |-> procs[t].doc_id,
                  concepts |-> extract_concepts_and_relations(procs[t].text,
                                                              procs[t].doc_id).concepts]]
  /\ UNCHANGED <<ingest_jobs, documents, graph_sync, neo4j, responses, ingest_runs,
                 build_runs, qa_logs, demo_state>>

NextExtract == ExtractStep(1)

SpecExtract == InitExtract /\ [][NextExtract]_vars

\* C28: every concept returned by extraction, be it a named entity, a noun
\* phrase or a frequency keyword, has a text that passes the validity
\* filter: 3 to 100 characters, not only stop-words, not only punctuation,
\* not only digits, not a deictic term of the blacklist.
C28_EveryConceptPassesFilter ==
  \A t \in Threads :
    procs[t].pc = "extract_done" =>
      \A i \in 1..Len(procs[t].concepts) : _is_valid_concept(procs[t].concepts[i].label)

\* the same for the concepts that are not frequency keywords
C28_SpanConceptsPassFilter ==
  \A t \in Threads :
    procs[t].pc = "extract_done" =>
      \A i \in 1..Len(procs[t].concepts) :
        procs[t].concepts[i].type # "keyword" => _is_valid_concept(procs[t].concepts[i].label)

\* C29: in the demo application, whenever graph_built is true the stored
\* dynamic_graph_data is a graph, and it is the graph of the content
\* ingested last; a status request for a sync id issued before a newer
\* ingestion does not mark the graph as built.
C29_BuiltGraphIsPresent ==
  demo_state.graph_built =>
    /\ demo_state.dynamic_graph_data # None
    /\ demo_state.dynamic_graph_data
         = DemoGraph(demo_state.processed_content, Len(demo_state.processed_content))

(***************************************************************************)
(* SpecOverlap: two request threads each run an ingestion job of up to two *)
(* files, in any interleaving of their steps.                              *)
(***************************************************************************)
OverlapInputs == 2

OverlapIngestRequest(t) ==
  /\ procs[t].pc = "idle"
  /\ Len(ingest_jobs) < MaxJobs
  /\ \E files \in SeqsUpTo({FileA, FileB}, OverlapInputs) : create_ingest_job(t, files, <<>>)

NextOverlap ==
  \/ \E t \in Threads : OverlapIngestRequest(t)
  \/ \E t \in Threads : IngestBegin(t)
  \/ \E t \in Threads : IngestFile(t)
  \/ \E t \in Threads : IngestFilesDone(t)
  \/ \E t \in Threads : IngestSave(t)
  \/ \E t \in Threads : IngestFinish(t)

SpecOverlap == Init /\ [][NextOverlap]_vars

\* C30: for any interleaving of two ingestion jobs that contain the same
\* content, the duplicate check followed by save_document never leaves two
\* Documents with the same content_hash in the document store.
C30_OneDocumentPerHashWhenOverlapping ==
  \A a, b \in 1..Len(documents) :
    documents[a].content_hash = documents[b].content_hash => a = b

====
